---- MODULE Spec2Model ----
(***************************************************************************)
(* A model of the GAIBA marketing analytics core: the keyword router of    *)
(* CampaignOptimizer (app/utils.py), the normalisation and derived-metric  *)
(* pipeline of DataLoader (app/data_loading.py) and DataProcessor          *)
(* (app/utils.py), the validator, and the campaign history ledger of       *)
(* EmailManager (app/email_utils.py).                                      *)
(*                                                                         *)
(* Text is a sequence of one-character strings, so that lower-casing,      *)
(* stripping, substring search and pattern matching are computed.          *)
(* A cell of a data frame is a record [k, v]: k names the kind of value    *)
(* and v is an integer, or the text of a raw cell.  Numbers are            *)
(* fixed-point, in units of 1/Scale.                                       *)
(***************************************************************************)
EXTENDS Integers, Sequences, FiniteSets, TLC

VARIABLES
    campaign_data,   \* the data frame an operation is handed (or NoDataset)
    prev_data,       \* the data frame as it was before the last operation
    email_history,   \* st.session_state.email_history
    prev_history,    \* email_history as it was before the last operation
    result,          \* what the last operation returned or raised
    rng,             \* the state of numpy's global random generator
    chat_history     \* st.session_state.chat_history: (role, content) entries

vars == <<campaign_data, prev_data, email_history, prev_history, result, rng,
          chat_history>>

---------------------------------------------------------------------------
(* Bounds of the model *)

MaxFrags == 2
MaxRecipients == 2
MaxLedger == 2
MaxRows == 2
MaxReports == 2
MaxClusters == 3
MaxChat == 4

---------------------------------------------------------------------------
(* Text *)

UpperChars ==
    {"A", "B", "C", "D", "E", "F", "G", "H", "I", "J", "K", "L", "M", "N",
     "O", "P", "Q", "R", "S", "T", "U", "V", "W", "X", "Y", "Z"}

LowerChars ==
    <<"a", "b", "c", "d", "e", "f", "g", "h", "i", "j", "k", "l", "m", "n",
      "o", "p", "q", "r", "s", "t", "u", "v", "w", "x", "y", "z">>

UpperSeq ==
    <<"A", "B", "C", "D", "E", "F", "G", "H", "I", "J", "K", "L", "M", "N",
      "O", "P", "Q", "R", "S", "T", "U", "V", "W", "X", "Y", "Z">>

Lower(s) ==
    LET \* str.lower() on one character
        LowerOf(c) ==
            IF c \in UpperChars
            THEN LowerChars[CHOOSE i \in 1..Len(UpperSeq) : UpperSeq[i] = c]
            ELSE c
    IN  [i \in 1..Len(s) |-> LowerOf(s[i])]

Letters == UpperChars \cup {LowerChars[i] : i \in 1..Len(LowerChars)}

Digits == {"0", "1", "2", "3", "4", "5", "6", "7", "8", "9"}

IsSpace(c) == c = " "

RECURSIVE LStrip(_)
LStrip(s) == IF s # <<>> /\ IsSpace(Head(s)) THEN LStrip(Tail(s)) ELSE s

RECURSIVE RStrip(_)
RStrip(s) ==
    IF s # <<>> /\ IsSpace(s[Len(s)]) THEN RStrip(SubSeq(s, 1, Len(s) - 1)) ELSE s

Strip(s) == RStrip(LStrip(s))

\* word in text: word occurs as a contiguous run of text
Contains(text, word) ==
    \E i \in 1..(Len(text) - Len(word) + 1) :
        SubSeq(text, i, i + Len(word) - 1) = word

RECURSIVE Concat(_)
Concat(ss) == IF ss = <<>> THEN <<>> ELSE Head(ss) \o Concat(Tail(ss))

RECURSIVE SeqSum(_)
SeqSum(s) == IF s = <<>> THEN 0 ELSE Head(s) + SeqSum(Tail(s))

SeqsUpTo(S, n) == UNION {[1..k -> S] : k \in 0..n}

---------------------------------------------------------------------------
(* Arithmetic on fixed-point numbers *)

\* p / q (q > 0) rounded to the nearest integer, ties to the even one
RoundDiv(p, q) ==
    LET fl == p \div q
        r == p % q
    IN  IF 2 * r < q THEN fl
        ELSE IF 2 * r > q THEN fl + 1
        ELSE IF fl % 2 = 0 THEN fl ELSE fl + 1

RECURSIVE Gcd(_, _)
Gcd(a, b) == IF b = 0 THEN a ELSE Gcd(b, a % b)

Abs(a) == IF a < 0 THEN -a ELSE a

---------------------------------------------------------------------------
(* EmailManager: addresses *)

AllIn(s, S) == \A i \in 1..Len(s) : s[i] \in S

validate_email(email) ==
    LET \* re.match(r'^[a-zA-Z0-9._%+-]+@[a-zA-Z0-9.-]+\.[a-zA-Z]{2,}$', s)
        MatchesPattern(s) ==
            \E a \in 2..Len(s) :
                /\ s[a] = "@"
                /\ AllIn(SubSeq(s, 1, a - 1), Letters \cup Digits \cup {".", "_", "%", "+", "-"})
                /\ \E d \in (a + 2)..(Len(s) - 2) :
                      /\ s[d] = "."
                      /\ AllIn(SubSeq(s, a + 1, d - 1), Letters \cup Digits \cup {".", "-"})
                      /\ AllIn(SubSeq(s, d + 1, Len(s)), Letters)
    IN  MatchesPattern(Strip(email))

\* validate_email_list with a plain else branch: what is not valid is invalid,
\* the blank entries too
RECURSIVE validate_email_list_plain_else(_)
validate_email_list_plain_else(email_list) ==
    IF email_list = <<>> THEN [valid |-> <<>>, invalid |-> <<>>]
    ELSE LET email == Strip(Head(email_list))
             rest == validate_email_list_plain_else(Tail(email_list))
         IN  IF email # <<>> /\ validate_email(email)
                 THEN [rest EXCEPT !.valid = <<email>> \o @]
             ELSE [rest EXCEPT !.invalid = <<email>> \o @]

RECURSIVE validate_email_list(_)
validate_email_list(email_list) ==
    IF email_list = <<>> THEN [valid |-> <<>>, invalid |-> <<>>]
    ELSE LET email == Strip(Head(email_list))
             rest == validate_email_list(Tail(email_list))
         IN  IF email # <<>> /\ validate_email(email)
                 THEN [rest EXCEPT !.valid = <<email>> \o @]
             ELSE IF email # <<>>
                 THEN [rest EXCEPT !.invalid = <<email>> \o @]
             ELSE rest

---------------------------------------------------------------------------
(* EmailManager: the campaign history ledger *)

\* numpy is not among the imports of email_utils.py, so the name np is
\* unbound there and every use of it raises NameError
NumpyBound == FALSE

RECURSIVE DigitsOf(_)
DigitsOf(n) ==
    LET d == CASE n % 10 = 0 -> "0" [] n % 10 = 1 -> "1" [] n % 10 = 2 -> "2"
               [] n % 10 = 3 -> "3" [] n % 10 = 4 -> "4" [] n % 10 = 5 -> "5"
               [] n % 10 = 6 -> "6" [] n % 10 = 7 -> "7" [] n % 10 = 8 -> "8"
               [] OTHER -> "9"
    IN  IF n < 10 THEN <<d>> ELSE DigitsOf(n \div 10) \o <<d>>

\* f"{x:.1f}%" of a rate x given in tenths
FormatRate(tenths) == DigitsOf(tenths \div 10) \o <<".", DigitsOf(tenths % 10)[1], "%">>

RECURSIVE Remove(_, _)
Remove(s, c) ==
    IF s = <<>> THEN <<>>
    ELSE IF Head(s) = c THEN Remove(Tail(s), c)
    ELSE <<Head(s)>> \o Remove(Tail(s), c)

RECURSIVE ParseInt(_)
ParseInt(s) ==
    LET DigitValue(c) ==
            CASE c = "0" -> 0 [] c = "1" -> 1 [] c = "2" -> 2 [] c = "3" -> 3
              [] c = "4" -> 4 [] c = "5" -> 5 [] c = "6" -> 6 [] c = "7" -> 7
              [] c = "8" -> 8 [] OTHER -> 9
    IN  IF s = <<>> THEN 0 ELSE 10 * ParseInt(SubSeq(s, 1, Len(s) - 1)) + DigitValue(s[Len(s)])

\* float(x.replace('%', '')) of a stored 'NN.N%' string, in tenths
ParseRate(x) ==
    LET t == Remove(x, "%")
        dot == CHOOSE i \in 1..Len(t) : t[i] = "."
    IN  10 * ParseInt(SubSeq(t, 1, dot - 1)) + ParseInt(SubSeq(t, dot + 1, Len(t)))

StatusSent == <<"S", "e", "n", "t">>

\* The record save_campaign_history builds; now is datetime.now(), open and
\* click are the two np.random.uniform draws, in tenths.
campaign_record(now, campaign_name, subject, recipients, open, click) ==
    [timestamp |-> now,
     campaign_name |-> campaign_name,
     subject |-> subject,
     recipients_count |-> Len(recipients),
     status |-> StatusSent,
     open_rate |-> FormatRate(open),
     click_rate |-> FormatRate(click)]

\* save_campaign_history: the draws need np; the append is the last statement
\* save_campaign_history that appends a record first and fills in the rates after
save_campaign_history_append_first(history, now, campaign_name, subject, content, recipients, open, click) ==
    [raised |-> ~NumpyBound,
     history |-> Append(history,
         campaign_record(now, campaign_name, subject, recipients, open, click))]

save_campaign_history(history, now, campaign_name, subject, content, recipients, open, click) ==
    IF ~NumpyBound
        THEN [raised |-> TRUE, history |-> history]
        ELSE [raised |-> FALSE,
              history |-> Append(history,
                  campaign_record(now, campaign_name, subject, recipients, open, click))]

simulate_email_send(campaign_name, subject, content, recipients) == TRUE

\* send_campaign: what it returns and the ledger it leaves
send_campaign(history, now, campaign_name, subject, content, recipients, open, click) ==
    LET lists == validate_email_list(recipients)
    IN  IF lists.valid = <<>> THEN [ret |-> FALSE, history |-> history]
        ELSE IF simulate_email_send(campaign_name, subject, content, lists.valid)
            THEN LET saved == save_campaign_history(history, now, campaign_name,
                                  subject, content, lists.valid, open, click)
                 IN  IF saved.raised
                         THEN [ret |-> FALSE, history |-> saved.history]
                         ELSE [ret |-> TRUE, history |-> saved.history]
        ELSE [ret |-> FALSE, history |-> history]

RECURSIVE Reverse(_)
Reverse(s) == IF s = <<>> THEN <<>> ELSE Reverse(Tail(s)) \o <<Head(s)>>

\* get_campaign_history listing the newest entry first
get_campaign_history_newest_first(history) ==
    IF history = <<>> THEN [empty |-> TRUE, rows |-> <<>>]
    ELSE [empty |-> FALSE, rows |-> Reverse(history)]

\* get_campaign_history: an empty frame, or one row per entry in list order
get_campaign_history(history) ==
    IF history = <<>> THEN [empty |-> TRUE, rows |-> <<>>]
    ELSE [empty |-> FALSE, rows |-> history]

RecentCount == 5

\* A mean is kept as the pair of a sum (in tenths) and a count
create_campaign_report(history) ==
    LET zero == [total_campaigns |-> 0, total_recipients |-> 0,
                 avg_open_rate |-> [sum |-> 0, n |-> 1],
                 avg_click_rate |-> [sum |-> 0, n |-> 1],
                 recent_campaigns |-> <<>>]
    IN  IF history = <<>> THEN [raised |-> FALSE, report |-> zero]
        ELSE LET n == Len(history)
                 open_rates == [i \in 1..n |-> ParseRate(history[i].open_rate)]
                 click_rates == [i \in 1..n |-> ParseRate(history[i].click_rate)]
             IN  IF ~NumpyBound THEN [raised |-> TRUE, report |-> zero]
                 ELSE [raised |-> FALSE,
                       report |->
                         [total_campaigns |-> n,
                          total_recipients |->
                              SeqSum([i \in 1..n |-> history[i].recipients_count]),
                          avg_open_rate |-> [sum |-> SeqSum(open_rates), n |-> n],
                          avg_click_rate |-> [sum |-> SeqSum(click_rates), n |-> n],
                          recent_campaigns |->
                              SubSeq(history, IF n > RecentCount THEN n - RecentCount + 1 ELSE 1, n)]]

OpenRateFloor == 20
ClickRateFloor == 3
ManyCampaigns == 5

\* generate_email_analytics; the averages are shown to two decimals
generate_email_analytics(history) ==
    LET none == [performance_summary |-> [campaign_count |-> 0],
                 recommendations |-> <<>>]
    IN  IF history = <<>> THEN [raised |-> FALSE, analytics |-> none]
        ELSE IF ~NumpyBound THEN [raised |-> TRUE, analytics |-> none]
        ELSE LET n == Len(history)
                 osum == SeqSum([i \in 1..n |-> ParseRate(history[i].open_rate)])
                 csum == SeqSum([i \in 1..n |-> ParseRate(history[i].click_rate)])
             IN  [raised |-> FALSE,
                  analytics |->
                    [performance_summary |->
                        [campaign_count |-> n,
                         total_emails_sent |->
                             SeqSum([i \in 1..n |-> history[i].recipients_count]),
                         average_open_rate |-> RoundDiv(osum * 10, n),
                         average_click_rate |-> RoundDiv(csum * 10, n)],
                     recommendations |->
                        (IF osum < OpenRateFloor * 10 * n THEN <<"subject_lines">> ELSE <<>>)
                        \o (IF csum < ClickRateFloor * 10 * n THEN <<"content_ctas">> ELSE <<>>)
                        \o (IF n > ManyCampaigns THEN <<"ab_testing">> ELSE <<>>)]]


\* export_email_report: empty bytes, the rows in one of two containers, or ValueError
export_email_report(history, format) ==
    IF history = <<>> THEN [raised |-> FALSE, kind |-> "empty", rows |-> <<>>]
    ELSE IF Lower(format) = <<"c", "s", "v">> THEN [raised |-> FALSE, kind |-> "csv", rows |-> history]
    ELSE IF Lower(format) = <<"e", "x", "c", "e", "l">> THEN [raised |-> FALSE, kind |-> "excel", rows |-> history]
    ELSE [raised |-> TRUE, kind |-> "none", rows |-> <<>>]


---------------------------------------------------------------------------
(* Data frames *)

\* campaign_data = None
NoDataset == [present |-> FALSE, n |-> 0, col |-> <<>>]

\* What an operation leaves in result before any operation has run
NoResult == [op |-> "none", raised |-> FALSE]

\* Fixed-point unit: a number cell [k |-> "num", v |-> x] stands for x / Scale
Scale == 10000

Num(x) == [k |-> "num", v |-> x]
NaN == [k |-> "nan", v |-> 0]
PosInf == [k |-> "inf", v |-> 1]
NegInf == [k |-> "inf", v |-> -1]
Str(i) == [k |-> "str", v |-> i]
Date(d) == [k |-> "date", v |-> d]
NaT == [k |-> "nat", v |-> 0]

\* isna: NaN in a numeric column, NaN/None in an object column, NaT in a date column
IsNa(cell) == cell.k \in {"nan", "nat"}
IsNum(cell) == cell.k = "num"

\* A data frame is [present, n, col]: n rows, and for each column name a record
\* [dtype, cells] with dtype "num", "obj" or "dt" and cells of length n
Frame(n, col) == [present |-> TRUE, n |-> n, col |-> col]
Columns(df) == DOMAIN df.col
HasCol(df, c) == c \in DOMAIN df.col
Cells(df, c) == df.col[c].cells
Column(dtype, cells) == [dtype |-> dtype, cells |-> cells]

\* df[c] = column: adds the column, or replaces the one of that name
SetCol(df, c, column) ==
    [df EXCEPT !.col = [x \in DOMAIN df.col \cup {c} |->
                            IF x = c THEN column ELSE df.col[x]]]

\* The numbers of a column, missing cells skipped
Values(cells) == SelectSeq(cells, IsNum)

RECURSIVE CellSum(_)
CellSum(cells) == IF cells = <<>> THEN 0 ELSE Head(cells).v + CellSum(Tail(cells))

\* Series.sum(): missing cells count as 0
ColSum(cells) == CellSum(Values(cells))

RECURSIVE CellMax(_)
CellMax(cells) ==
    IF Len(cells) = 1 THEN cells[1].v
    ELSE LET m == CellMax(Tail(cells)) IN IF cells[1].v > m THEN cells[1].v ELSE m

RECURSIVE CellMin(_)
CellMin(cells) ==
    IF Len(cells) = 1 THEN cells[1].v
    ELSE LET m == CellMin(Tail(cells)) IN IF cells[1].v < m THEN cells[1].v ELSE m

\* Series.mean(), max(), min(): NaN when no cell is present.  The mean is kept
\* to 1/Scale, nearest.
ColMean(cells) ==
    LET vs == Values(cells)
    IN  IF vs = <<>> THEN NaN ELSE Num(RoundDiv(CellSum(vs), Len(vs)))
\* f"{x:.2f}": the number in hundredths, or NaN printed as 'nan'
Fmt2(cell) == IF IsNum(cell) THEN Num(RoundDiv(cell.v, Scale \div 100)) ELSE cell

\* round(2): the number to two decimals, still in units of 1/Scale
Round2(cell) ==
    IF IsNum(cell) THEN Num(RoundDiv(cell.v, Scale \div 100) * (Scale \div 100)) ELSE cell

\* x > y as a comparison of cells; any comparison with NaN is False
Gt(cell, x) == IsNum(cell) /\ cell.v > x
Lt(cell, x) == IsNum(cell) /\ cell.v < x

---------------------------------------------------------------------------
(* Arithmetic on columns, as pandas does it on float64 *)

Pow10(d) == CASE d = 0 -> 1 [] d = 1 -> 10 [] d = 2 -> 100 [] d = 3 -> 1000 [] OTHER -> 10000

\* a - b
SubCell(a, b) == IF IsNum(a) /\ IsNum(b) THEN Num(a.v - b.v) ELSE NaN

\* (a / b * mult).round(dec): a missing operand gives NaN, a zero divisor gives
\* +inf or -inf by the sign of a, and NaN for 0 / 0; round leaves these alone
RatioCell(a, b, mult, dec) ==
    IF ~IsNum(a) \/ ~IsNum(b) THEN NaN
    ELSE IF b.v = 0 THEN (IF a.v > 0 THEN PosInf ELSE IF a.v < 0 THEN NegInf ELSE NaN)
    ELSE LET sgn == IF b.v < 0 THEN -1 ELSE 1
             g == Gcd(Abs(a.v), Abs(b.v))
             p == sgn * (a.v \div g)
             q == sgn * (b.v \div g)
         IN  Num(RoundDiv(p * mult * Pow10(dec), q) * (Scale \div Pow10(dec)))

\* .replace([np.inf, -np.inf], np.nan)
InfToNaN(cell) == IF cell.k = "inf" THEN NaN ELSE cell

\* (end - start).dt.days: NaN where either date is NaT
DaysCell(end, start) ==
    IF end.k = "date" /\ start.k = "date" THEN Num((end.v - start.v) * Scale) ELSE NaN

\* roi rounded to one decimal instead of two
RoiColumn_one_decimal(df) ==
    Column("num", [i \in 1..df.n |->
        RatioCell(SubCell(Cells(df, "revenue")[i], Cells(df, "spend")[i]),
                  Cells(df, "spend")[i], 100, 1)])

RoiColumn(df) ==
    Column("num", [i \in 1..df.n |->
        RatioCell(SubCell(Cells(df, "revenue")[i], Cells(df, "spend")[i]),
                  Cells(df, "spend")[i], 100, 2)])

CtrColumn(df) ==
    Column("num", [i \in 1..df.n |->
        RatioCell(Cells(df, "clicks")[i], Cells(df, "impressions")[i], 100, 4)])

CpaColumn(df) ==
    Column("num", [i \in 1..df.n |->
        InfToNaN(RatioCell(Cells(df, "spend")[i], Cells(df, "conversions")[i], 1, 2))])

DurationColumn(df) ==
    Column("num", [i \in 1..df.n |->
        DaysCell(Cells(df, "end_date")[i], Cells(df, "start_date")[i])])

\* Arithmetic between two columns raises TypeError when it meets text.  With an
\* object column the operation is applied to the rows where both cells are
\* present, so text beside a missing cell is passed over.
Numeric(df, cols) ==
    ~\E i \in 1..df.n :
        /\ \E c \in cols : Cells(df, c)[i].k = "str"
        /\ \A c \in cols : ~IsNa(Cells(df, c)[i])
Datetimes(df, cols) == \A c \in cols : df.col[c].dtype = "dt"

---------------------------------------------------------------------------
(* DataLoader.add_derived_columns: the steps run in order on the frame itself;
   a step that raises ends the call, which returns the frame as the steps
   before it left it. *)

Step(ok, df) == [ok |-> ok, df |-> df]

AddRoi(df) ==
    IF ~HasCol(df, "roi") /\ HasCol(df, "revenue") /\ HasCol(df, "spend")
        THEN IF Numeric(df, {"revenue", "spend"})
                 THEN Step(TRUE, SetCol(df, "roi", RoiColumn(df)))
                 ELSE Step(FALSE, df)
        ELSE Step(TRUE, df)

AddCtr(df) ==
    IF ~HasCol(df, "ctr") /\ HasCol(df, "clicks") /\ HasCol(df, "impressions")
        THEN IF Numeric(df, {"clicks", "impressions"})
                 THEN Step(TRUE, SetCol(df, "ctr", CtrColumn(df)))
                 ELSE Step(FALSE, df)
        ELSE Step(TRUE, df)

AddEngagementRate(df) ==
    IF ~HasCol(df, "engagement_rate") /\ HasCol(df, "clicks") /\ HasCol(df, "impressions")
        THEN Step(TRUE, SetCol(df, "engagement_rate", df.col["ctr"]))
        ELSE Step(TRUE, df)

\* campaign_duration accumulated onto a column already there
AddCampaignDuration_accumulating(df) ==
    IF HasCol(df, "start_date") /\ HasCol(df, "end_date")
        THEN IF Datetimes(df, {"start_date", "end_date"})
                 THEN Step(TRUE, SetCol(df, "campaign_duration",
                          IF HasCol(df, "campaign_duration")
                              THEN Column("num", [i \in 1..df.n |->
                                       IF IsNum(Cells(df, "campaign_duration")[i])
                                              /\ IsNum(DurationColumn(df).cells[i])
                                           THEN Num(Cells(df, "campaign_duration")[i].v
                                                    + DurationColumn(df).cells[i].v)
                                           ELSE NaN])
                              ELSE DurationColumn(df)))
                 ELSE Step(FALSE, df)
        ELSE Step(TRUE, df)

\* the one step with no 'not in df.columns' test
AddCampaignDuration(df) ==
    IF HasCol(df, "start_date") /\ HasCol(df, "end_date")
        THEN IF Datetimes(df, {"start_date", "end_date"})
                 THEN Step(TRUE, SetCol(df, "campaign_duration", DurationColumn(df)))
                 ELSE Step(FALSE, df)
        ELSE Step(TRUE, df)

AddCpa(df) ==
    IF ~HasCol(df, "cpa") /\ HasCol(df, "spend") /\ HasCol(df, "conversions")
        THEN IF Numeric(df, {"spend", "conversions"})
                 THEN Step(TRUE, SetCol(df, "cpa", CpaColumn(df)))
                 ELSE Step(FALSE, df)
        ELSE Step(TRUE, df)

\* The frame add_derived_columns returns (the exception is logged, never raised)
\* A step runs only if no earlier step raised.
add_derived_columns(df) ==
    LET s1 == AddRoi(df)
        s2 == IF s1.ok THEN AddCtr(s1.df) ELSE s1
        s3 == IF s2.ok THEN AddEngagementRate(s2.df) ELSE s2
        s4 == IF s3.ok THEN AddCampaignDuration(s3.df) ELSE s3
        s5 == IF s4.ok THEN AddCpa(s4.df) ELSE s4
    IN  s5.df

---------------------------------------------------------------------------
(* DataProcessor.calculate_derived_metrics: works on a copy, tests the source
   columns only, and lets an exception out. *)

calculate_derived_metrics(df) ==
    LET RoasColumn(frame) ==
            Column("num", [i \in 1..frame.n |->
                RatioCell(Cells(frame, "revenue")[i], Cells(frame, "spend")[i], 1, 2)])
        roi == IF HasCol(df, "revenue") /\ HasCol(df, "spend")
                   THEN IF Numeric(df, {"revenue", "spend"})
                            THEN Step(TRUE, SetCol(df, "roi", RoiColumn(df)))
                            ELSE Step(FALSE, df)
                   ELSE Step(TRUE, df)
        Ctr(d) == IF HasCol(df, "clicks") /\ HasCol(df, "impressions")
                      THEN IF Numeric(d, {"clicks", "impressions"})
                               THEN Step(TRUE, SetCol(d, "ctr", CtrColumn(d)))
                               ELSE Step(FALSE, d)
                      ELSE Step(TRUE, d)
        Cpa(d) == IF HasCol(df, "spend") /\ HasCol(df, "conversions")
                      THEN IF Numeric(d, {"spend", "conversions"})
                               THEN Step(TRUE, SetCol(d, "cpa", CpaColumn(d)))
                               ELSE Step(FALSE, d)
                      ELSE Step(TRUE, d)
        Roas(d) == IF HasCol(df, "revenue") /\ HasCol(df, "spend")
                       THEN Step(TRUE, SetCol(d, "roas", RoasColumn(d)))
                       ELSE Step(TRUE, d)
        s2 == IF roi.ok THEN Ctr(roi.df) ELSE roi
        s3 == IF s2.ok THEN Cpa(s2.df) ELSE s2
        last == IF s3.ok THEN Roas(s3.df) ELSE s3
    IN  [raised |-> ~last.ok, df |-> last.df]

---------------------------------------------------------------------------
(* DataLoader.preprocess_data: coercion of the date and numeric columns, the
   backfill of missing values, then the derived columns *)

\* A raw text cell; s is the text
Txt(s) == [k |-> "str", v |-> s]

\* The characters of the model in code order
Ascii ==
    <<" ", "%", "+", "-", ".", "/", "0", "1", "2", "3", "4", "5", "6", "7",
      "8", "9", "@", "A", "B", "C", "D", "E", "F", "G", "H", "I", "J", "K",
      "L", "M", "N", "O", "P", "Q", "R", "S", "T", "U", "V", "W", "X", "Y",
      "Z", "_", "a", "b", "c", "d", "e", "f", "g", "h", "i", "j", "k", "l",
      "m", "n", "o", "p", "q", "r", "s", "t", "u", "v", "w", "x", "y", "z">>

Ord(c) == CHOOSE i \in 1..Len(Ascii) : Ascii[i] = c

\* a < b for str
RECURSIVE StrLess(_, _)
StrLess(a, b) ==
    IF b = <<>> THEN FALSE
    ELSE IF a = <<>> THEN TRUE
    ELSE IF Head(a) = Head(b) THEN StrLess(Tail(a), Tail(b))
    ELSE Ord(Head(a)) < Ord(Head(b))

\* The day number of a calendar date, counted from 1970-01-01
DaysFromCivil(y, m, d) ==
    LET yy == IF m <= 2 THEN y - 1 ELSE y
        era == yy \div 400
        yoe == yy - era * 400
        mp == IF m > 2 THEN m - 3 ELSE m + 9
        doy == ((153 * mp + 2) \div 5) + d - 1
        doe == yoe * 365 + (yoe \div 4) - (yoe \div 100) + doy
    IN  era * 146097 + doe - 719468

\* pd.to_datetime(..., errors='coerce') on one cell: 'YYYY-MM-DD' text becomes
\* the date, any other text and a missing cell become NaT
ToDatetimeCell(cell) ==
    LET DaysInMonth(y, m) ==
            IF m = 2 THEN (IF (y % 4 = 0 /\ y % 100 # 0) \/ y % 400 = 0 THEN 29 ELSE 28)
            ELSE IF m \in {4, 6, 9, 11} THEN 30 ELSE 31
    IN  IF cell.k = "date" THEN cell
        ELSE IF cell.k # "str" THEN NaT
        ELSE LET s == cell.v
             IN  IF /\ Len(s) = 10
                    /\ s[5] = "-" /\ s[8] = "-"
                    /\ AllIn(SubSeq(s, 1, 4) \o SubSeq(s, 6, 7) \o SubSeq(s, 9, 10), Digits)
                 THEN LET y == ParseInt(SubSeq(s, 1, 4))
                          m == ParseInt(SubSeq(s, 6, 7))
                          d == ParseInt(SubSeq(s, 9, 10))
                      IN  IF m \in 1..12 /\ d >= 1 /\ d <= DaysInMonth(y, m)
                          THEN Date(DaysFromCivil(y, m, d)) ELSE NaT
                 ELSE NaT

\* pd.to_numeric(..., errors='coerce') on one cell: text of digits becomes the
\* number, any other text and a missing cell become NaN
ToNumericCell(cell) ==
    IF cell.k \in {"num", "inf"} THEN cell
    ELSE IF cell.k # "str" THEN NaN
    ELSE LET s == Strip(cell.v)
         IN  IF s # <<>> /\ AllIn(s, Digits) THEN Num(ParseInt(s) * Scale) ELSE NaN

\* The two coercion loops of preprocess_data
Coerce(df) ==
    LET PreNumericColumns ==
            {"budget", "spend", "revenue", "impressions", "clicks", "roi", "engagement_rate"}
        PreDateColumns == {"date", "campaign_date", "start_date", "end_date"}
    IN  [df EXCEPT !.col =
            [c \in DOMAIN df.col |->
                IF c \in PreDateColumns THEN Column("dt", [i \in 1..df.n |-> ToDatetimeCell(df.col[c].cells[i])])
                ELSE IF c \in PreNumericColumns
                     THEN Column("num", [i \in 1..df.n |-> ToNumericCell(df.col[c].cells[i])])
                ELSE df.col[c]]]

RECURSIVE InsertAsc(_, _)
InsertAsc(x, sorted) ==
    IF sorted = <<>> THEN <<x>>
    ELSE IF x <= Head(sorted) THEN <<x>> \o sorted
    ELSE <<Head(sorted)>> \o InsertAsc(x, Tail(sorted))

RECURSIVE SortAsc(_)
SortAsc(xs) == IF xs = <<>> THEN <<>> ELSE InsertAsc(Head(xs), SortAsc(Tail(xs)))

\* Series.median(): of the present values; NaN when there is none
Median(cells) ==
    LET vs == SortAsc([i \in 1..Len(Values(cells)) |-> Values(cells)[i].v])
        n == Len(vs)
    IN  IF n = 0 THEN NaN
        ELSE IF n % 2 = 1 THEN Num(vs[(n + 1) \div 2])
        ELSE Num((vs[n \div 2] + vs[(n \div 2) + 1]) \div 2)

\* mode()[0] if there is a mode, else 'Unknown'.  Modes that are numbers and
\* text cannot be sorted and are left in the order of their first appearance.
ModeOrUnknown(cells) ==
    LET Unknown == Txt(<<"U", "n", "k", "n", "o", "w", "n">>)
    IN  LET \* Series.mode() of an object column: the most frequent present values, in
            \* ascending order; empty when no cell is present
            Modes(cs) ==
                LET present == {cs[i] : i \in {j \in 1..Len(cs) : ~IsNa(cs[j])}}
                    Freq(x) == Cardinality({i \in 1..Len(cs) : cs[i] = x})
                IN  {x \in present : \A y \in present : Freq(y) <= Freq(x)}
            ms == Modes(cells)
        IN  IF ms = {} THEN Unknown
            ELSE IF \A x \in ms : x.k = "str"
                THEN CHOOSE x \in ms : \A y \in ms : y = x \/ StrLess(x.v, y.v)
            ELSE IF \A x \in ms : x.k = "num"
                THEN CHOOSE x \in ms : \A y \in ms : x.v <= y.v
            ELSE cells[CHOOSE i \in 1..Len(cells) :
                           cells[i] \in ms /\ \A j \in 1..(i - 1) : cells[j] \notin ms]

\* Series.fillna(value): NaN as the value fills nothing
FillNa(cells, value) == [i \in 1..Len(cells) |-> IF IsNa(cells[i]) THEN value ELSE cells[i]]

\* Numeric columns get their median, object columns their mode; date columns
\* are neither.  The fill acts on the frame (pandas without copy-on-write).
handle_missing_values(df) ==
    [df EXCEPT !.col =
        [c \in DOMAIN df.col |->
            LET column == df.col[c]
            IN  IF column.dtype = "num"
                    THEN Column("num", FillNa(column.cells, Median(column.cells)))
                ELSE IF column.dtype = "obj" /\ df.n > 0
                    THEN Column("obj", FillNa(column.cells, ModeOrUnknown(column.cells)))
                ELSE column]]

\* preprocess_data with the backfill after the derived columns
preprocess_data_backfill_last(df) == handle_missing_values(add_derived_columns(Coerce(df)))

\* Nothing in the three stages raises past add_derived_columns' own handler,
\* so the frame returned is the fully processed one
preprocess_data(df) == add_derived_columns(handle_missing_values(Coerce(df)))

---------------------------------------------------------------------------
(* DataLoader.validate_data *)

TypeWarning(c) == [kind |-> "should_be_numeric", column |-> c]
NegativeWarning(c) == [kind |-> "negative_values", column |-> c]
\* The value of is_valid once the required columns have been looked at
IsValid_no_warnings(missing, warned) == missing = <<>> /\ ~warned
IsValid(missing, warned) == missing = <<>>

\* One report object kept by the loader and filled again by every call
validation_results_shared(heap, report) ==
    [id |-> 1, heap |-> IF heap = <<>> THEN <<report>> ELSE [heap EXCEPT ![1] = report]]

\* validation_results = {...}: the report is a new object on the heap of the
\* objects that callers hold; its id is its place on the heap
validation_results(heap, report) == [id |-> Len(heap) + 1, heap |-> Append(heap, report)]

\* The report, or raised when a comparison with 0 fails, and the frame as the
\* call leaves it.  memory_usage_mb is left out of info.
validate_data(df) ==
    LET \* df.duplicated().sum(): rows equal to an earlier row
        DuplicateRows(frame) ==
            Cardinality({i \in 1..frame.n : \E j \in 1..(i - 1) :
                                \A c \in Columns(frame) : Cells(frame, c)[j] = Cells(frame, c)[i]})
        \* df.isnull().sum().sum()
        MissingValues(frame) ==
            SeqSum([i \in 1..frame.n |-> Cardinality({c \in Columns(frame) : IsNa(Cells(frame, c)[i])})])
        MissingError(cols) == [kind |-> "missing_required", columns |-> cols]
        \* (df[col] < 0) raises TypeError on a date column and on an object column
        \* holding text; None in an object column compares False
        ComparisonRaises(column) ==
            \/ column.dtype = "dt"
            \/ column.dtype = "obj" /\ \E i \in 1..Len(column.cells) : column.cells[i].k = "str"
        FinancialColumns == <<"budget", "spend", "revenue">>
        RequiredColumns == <<"campaign_id", "budget", "spend">>
        missing == SelectSeq(RequiredColumns, LAMBDA c : ~HasCol(df, c))
        errors == IF missing # <<>> THEN <<MissingError(missing)>> ELSE <<>>
        types == SelectSeq(<<"budget", "spend">>,
                           LAMBDA c : HasCol(df, c) /\ df.col[c].dtype # "num")
        present == SelectSeq(FinancialColumns, LAMBDA c : HasCol(df, c))
        raised == \E i \in 1..Len(present) : ComparisonRaises(df.col[present[i]])
        negative == SelectSeq(present, LAMBDA c : \E i \in 1..df.n : Lt(Cells(df, c)[i], 0))
        warnings == [i \in 1..Len(types) |-> TypeWarning(types[i])]
                    \o [i \in 1..Len(negative) |-> NegativeWarning(negative[i])]
    IN  IF raised THEN [raised |-> TRUE, df |-> df]
        ELSE [raised |-> FALSE,
              df |-> df,
              is_valid |-> IsValid(missing, warnings # <<>>),
              errors |-> errors,
              warnings |-> warnings,
              info |-> [total_rows |-> df.n,
                        total_columns |-> Cardinality(Columns(df)),
                        missing_values |-> MissingValues(df),
                        duplicate_rows |-> DuplicateRows(df)]]

---------------------------------------------------------------------------
(* DataLoader.export_data and load_csv.  A CSV file is kept as its table of
   fields, [readable, n, col]: col maps each header name to the n texts below
   it.  Joining the fields with commas and splitting them again is left out. *)

\* n written with at least width digits
RECURSIVE Pad(_, _)
Pad(digits, width) == IF Len(digits) >= width THEN digits ELSE Pad(<<"0">> \o digits, width)

RECURSIVE DropTrailingZeros(_)
DropTrailingZeros(digits) ==
    IF Len(digits) > 1 /\ digits[Len(digits)] = "0"
    THEN DropTrailingZeros(SubSeq(digits, 1, Len(digits) - 1))
    ELSE digits

to_csv(df) ==
    LET \* One field of df.to_csv(index=False): a missing cell is the empty field
        ToCsvField(cell) ==
            LET \* The calendar date of a day number, as 'YYYY-MM-DD'
                FormatDate(days) ==
                    LET z == days + 719468
                        era == z \div 146097
                        doe == z - era * 146097
                        yoe == (doe - (doe \div 1460) + (doe \div 36524) - (doe \div 146096)) \div 365
                        doy == doe - (365 * yoe + (yoe \div 4) - (yoe \div 100))
                        mp == (5 * doy + 2) \div 153
                        d == doy - ((153 * mp + 2) \div 5) + 1
                        m == IF mp < 10 THEN mp + 3 ELSE mp - 9
                        y == yoe + era * 400 + (IF m <= 2 THEN 1 ELSE 0)
                    IN  Pad(DigitsOf(y), 4) \o <<"-">> \o Pad(DigitsOf(m), 2) \o <<"-">> \o Pad(DigitsOf(d), 2)
                \* repr of a float64 given in units of 1/Scale: 50.0, 33.33, -0.5
                FormatFloat(v) ==
                    (IF v < 0 THEN <<"-">> ELSE <<>>)
                        \o DigitsOf(Abs(v) \div Scale) \o <<".">>
                        \o DropTrailingZeros(Pad(DigitsOf(Abs(v) % Scale), 4))
            IN  CASE cell.k = "num" -> FormatFloat(cell.v)
                  [] cell.k = "inf" -> (IF cell.v < 0 THEN <<"-", "i", "n", "f">> ELSE <<"i", "n", "f">>)
                  [] cell.k = "date" -> FormatDate(cell.v)
                  [] cell.k = "str" -> cell.v
                  [] OTHER -> <<>>
    IN  [readable |-> TRUE, n |-> df.n,
         col |-> [c \in Columns(df) |-> [i \in 1..df.n |-> ToCsvField(Cells(df, c)[i])]]]

\* A file pd.read_csv cannot parse (an empty upload)
EmptyFile == [readable |-> FALSE, n |-> 0, col |-> <<>>]

\* The float a field spells, or the field as text when it spells none.  At
\* most four decimals are read.
ParseField(s) ==
    LET neg == s # <<>> /\ Head(s) = "-"
        t == IF neg THEN Tail(s) ELSE s
        dots == {i \in 1..Len(t) : t[i] = "."}
        dot == IF dots = {} THEN Len(t) + 1 ELSE CHOOSE i \in dots : TRUE
        whole == SubSeq(t, 1, dot - 1)
        frac == SubSeq(t, dot + 1, Len(t))
    IN  IF t = <<"i", "n", "f">> THEN (IF neg THEN NegInf ELSE PosInf)
        ELSE IF /\ Cardinality(dots) <= 1
                /\ whole \o frac # <<>>
                /\ AllIn(whole \o frac, Digits)
                /\ Len(frac) <= 4
             THEN LET units == ParseInt(whole) * Scale
                                  + ParseInt(frac) * Pow10(4 - Len(frac))
                  IN  Num(IF neg THEN -units ELSE units)
        ELSE Txt(s)

\* pd.read_csv: a column is float64 when every field that is not missing
\* spells a number, and object otherwise, its fields kept as text
read_csv(file) ==
    LET \* Fields read_csv takes for missing, of those that can be written here
        NaFields ==
            {<<>>, <<"N", "/", "A">>, <<"N", "A">>, <<"N", "U", "L", "L">>, <<"N", "a", "N">>,
             <<"N", "o", "n", "e">>, <<"n", "/", "a">>, <<"n", "a", "n">>, <<"n", "u", "l", "l">>}
    IN  Frame(file.n,
              [c \in DOMAIN file.col |->
                  LET fields == file.col[c]
                      present == {i \in 1..file.n : fields[i] \notin NaFields}
                      numeric == \A i \in present : ParseField(fields[i]).k # "str"
                  IN  IF file.n = 0 THEN Column("obj", <<>>)
                      ELSE IF numeric
                          THEN Column("num", [i \in 1..file.n |->
                                   IF i \in present THEN ParseField(fields[i]) ELSE NaN])
                      ELSE Column("obj", [i \in 1..file.n |->
                                   IF i \in present THEN Txt(fields[i]) ELSE NaN])])

\* read_csv's exception is wrapped and raised again; preprocess_data raises none
load_csv(uploaded_file) ==
    IF ~uploaded_file.readable THEN [raised |-> TRUE, df |-> NoDataset]
    ELSE [raised |-> FALSE, df |-> preprocess_data(read_csv(uploaded_file))]

\* export_data without the lower-casing of the format name
export_data_exact_name(df, format) ==
    IF format = <<"c", "s", "v">> THEN [raised |-> FALSE, kind |-> "csv", file |-> to_csv(df)]
    ELSE IF format = <<"e", "x", "c", "e", "l">>
        THEN [raised |-> FALSE, kind |-> "excel", file |-> to_csv(df)]
    ELSE [raised |-> TRUE, kind |-> "none", file |-> EmptyFile]

\* The bytes of a workbook are stood for by the table written into it
export_data(df, format) ==
    IF Lower(format) = <<"c", "s", "v">>
        THEN [raised |-> FALSE, kind |-> "csv", file |-> to_csv(df)]
    ELSE IF Lower(format) = <<"e", "x", "c", "e", "l">>
        THEN [raised |-> FALSE, kind |-> "excel", file |-> to_csv(df)]
    ELSE [raised |-> TRUE, kind |-> "none", file |-> EmptyFile]

---------------------------------------------------------------------------
(* DataLoader.generate_sample_data.  numpy's global generator is a state and a
   step: every draw advances the state and is a function of the state reached.
   The step is a linear congruential one of full period RngModulus.  A draw from
   a range takes a value on a grid at the low end of the range, which keeps the
   fixed-point products within the integers. *)
RngModulus == 32

Advance(state) == (5 * state + 3) % RngModulus

RECURSIVE AdvanceBy(_, _)
AdvanceBy(state, draws) ==
    IF draws = 0 THEN state ELSE AdvanceBy(Advance(state), draws - 1)

\* channels
SampleChannels ==
    <<<<"E", "m", "a", "i", "l">>,
      <<"S", "o", "c", "i", "a", "l", " ", "M", "e", "d", "i", "a">>,
      <<"G", "o", "o", "g", "l", "e", " ", "A", "d", "s">>,
      <<"D", "i", "s", "p", "l", "a", "y">>,
      <<"V", "i", "d", "e", "o">>,
      <<"N", "a", "t", "i", "v", "e">>>>

\* The body of generate_sample_data from the generator state it starts in.
\* The draws are taken in the order of the code: num_records for channel, then
\* budget, spend, impressions, clicks, conversions and revenue, then one for
\* the offset of end_date.  pd.date_range raises when the last start date is
\* beyond the range of datetime64[ns], after the channels were drawn; adding
\* the offset raises when an end date is.
sample_from(num_records, state) ==
    LET \* The last day a datetime64[ns] column can hold: 2262-04-11
        TimestampMaxDay == DaysFromCivil(2262, 4, 11)
        \* np.random.randint(low, high) for one draw
        RandInt(low, draw) == Num((low + draw * 7) * Scale)
        \* np.random.uniform(low, high).round(2) for one draw
        Uniform(low, draw) == Round2(Num(low * Scale + draw * 123456))
        n == num_records
        first == DaysFromCivil(2023, 1, 1)
        Draw(j) == AdvanceBy(state, j)
        offset == 1 + (Draw(7 * n + 1) % 29)
        Texts(prefix, width) ==
            Column("obj", [i \in 1..n |-> Txt(prefix \o Pad(DigitsOf(i), width))])
        data ==
            [campaign_id |-> Texts(<<"C", "A", "M", "P", "_">>, 4),
             campaign_name |-> Texts(<<"C", "a", "m", "p", "a", "i", "g", "n", " ">>, 1),
             channel |-> Column("obj", [i \in 1..n |->
                             Txt(SampleChannels[1 + (Draw(i) % Len(SampleChannels))])]),
             start_date |-> Column("dt", [i \in 1..n |-> Date(first + i - 1)]),
             budget |-> Column("num", [i \in 1..n |-> Uniform(1000, Draw(n + i))]),
             spend |-> Column("num", [i \in 1..n |-> Uniform(800, Draw(2 * n + i))]),
             impressions |-> Column("num", [i \in 1..n |-> RandInt(10000, Draw(3 * n + i))]),
             clicks |-> Column("num", [i \in 1..n |-> RandInt(100, Draw(4 * n + i))]),
             conversions |-> Column("num", [i \in 1..n |-> RandInt(10, Draw(5 * n + i))]),
             revenue |-> Column("num", [i \in 1..n |-> Uniform(1500, Draw(6 * n + i))]),
             end_date |-> Column("dt", [i \in 1..n |-> Date(first + i - 1 + offset)])]
    IN  IF first + n - 1 > TimestampMaxDay
            THEN [raised |-> TRUE, df |-> NoDataset,
                  state |-> AdvanceBy(state, n % RngModulus)]
        ELSE IF first + n - 1 + offset > TimestampMaxDay
            THEN [raised |-> TRUE, df |-> NoDataset,
                  state |-> AdvanceBy(state, (7 * n + 1) % RngModulus)]
        ELSE [raised |-> FALSE, df |-> preprocess_data(Frame(n, data)),
              state |-> AdvanceBy(state, 7 * n + 1)]

\* generate_sample_data without its first line
generate_sample_data_unseeded(num_records, state) == sample_from(num_records, state)

\* generate_sample_data(num_records) called with the global generator in state
generate_sample_data(num_records, state) ==
    LET \* np.random.seed(42)
        Seeded == 42 % RngModulus
    IN  sample_from(num_records, Seeded)

---------------------------------------------------------------------------
(* CampaignOptimizer: grouping by channel *)

RECURSIVE SortedSeq(_)
SortedSeq(S) ==
    IF S = {} THEN <<>>
    ELSE LET m == CHOOSE x \in S : \A y \in S : x <= y
         IN  <<m>> \o SortedSeq(S \ {m})

\* The group keys of groupby('channel'): the labels present, sorted; rows whose
\* channel is missing belong to no group
GroupKeys(df) ==
    SortedSeq({Cells(df, "channel")[i].v :
                  i \in {j \in 1..df.n : ~IsNa(Cells(df, "channel")[j])}})

RECURSIVE PickRows(_, _, _)
PickRows(cells, keys, key) ==
    IF cells = <<>> THEN <<>>
    ELSE (IF ~IsNa(Head(keys)) /\ Head(keys).v = key THEN <<Head(cells)>> ELSE <<>>)
         \o PickRows(Tail(cells), Tail(keys), key)

\* The cells of column c in the rows of one channel
GroupCells(df, c, key) == PickRows(Cells(df, c), Cells(df, "channel"), key)

RECURSIVE InsertDesc(_, _)
InsertDesc(x, s) ==
    LET \* a sorts strictly before b in a descending sort; missing values go last
        Precedes(a, b) == IsNum(a) /\ (~IsNum(b) \/ a.v > b.v)
    IN  IF s = <<>> THEN <<x>>
        ELSE IF Precedes(x.roi, Head(s).roi) THEN <<x>> \o s
        ELSE <<Head(s)>> \o InsertDesc(x, Tail(s))

\* sort_values('roi', ascending=False): rows with equal roi keep their order
RECURSIVE SortByRoiDesc(_)
SortByRoiDesc(s) ==
    IF s = <<>> THEN <<>>
    ELSE InsertDesc(s[Len(s)], SortByRoiDesc(SubSeq(s, 1, Len(s) - 1)))

---------------------------------------------------------------------------
(* CampaignOptimizer: the report generators.  A report is the template that
   was filled and the figures put into it; a generator that raises returns
   no report. *)

Raised(exc) == [raised |-> TRUE, exc |-> exc, report |-> [template |-> "none"]]
Report(r) == [raised |-> FALSE, exc |-> "none", report |-> r]


analyze_roi_query(data) ==
    LET \* data.groupby('channel')['roi'].mean().sort_values(ascending=False)
        ChannelRoi(df) ==
            LET keys == GroupKeys(df)
            IN  SortByRoiDesc([i \in 1..Len(keys) |->
                    [channel |-> keys[i], roi |-> ColMean(GroupCells(df, "roi", keys[i]))]])
        PositiveCount(cells) == Len(SelectSeq(cells, LAMBDA cell : Gt(cell, 0)))
        ColMin(cells) == LET vs == Values(cells) IN IF vs = <<>> THEN NaN ELSE Num(CellMin(vs))
        ColMax(cells) == LET vs == Values(cells) IN IF vs = <<>> THEN NaN ELSE Num(CellMax(vs))
    IN  IF ~data.present \/ ~HasCol(data, "roi") THEN Report([template |-> "roi_upload"])
        ELSE LET roi == Cells(data, "roi")
                 figures == [template |-> "roi_results",
                             avg_roi |-> Fmt2(ColMean(roi)),
                             best_roi |-> Fmt2(ColMax(roi)),
                             worst_roi |-> Fmt2(ColMin(roi)),
                             positive_campaigns |-> PositiveCount(roi),
                             total_campaigns |-> data.n,
                             positive_avg |-> Gt(ColMean(roi), 0)]
             IN  IF HasCol(data, "channel")
                     THEN LET channel_roi == ChannelRoi(data)
                          IN  IF channel_roi = <<>> THEN Raised("IndexError")
                              ELSE Report([figures EXCEPT !.template = "roi_results_channel"]
                                       @@ [best_channel |-> channel_roi[1].channel,
                                           best_channel_roi |-> Fmt2(channel_roi[1].roi)])
                     ELSE Report(figures)

\* (total_spend / total_budget * 100) to one decimal, in tenths
Utilization(total_spend, total_budget) ==
    IF total_budget > 0
        THEN LET g == Gcd(Abs(total_spend), total_budget)
             IN  RoundDiv((total_spend \div g) * 1000, total_budget \div g)
        ELSE 0

HighRoi == 15

analyze_budget_query(data) ==
    IF ~data.present THEN Report([template |-> "budget_upload"])
    ELSE LET total_budget == IF HasCol(data, "budget") THEN ColSum(Cells(data, "budget")) ELSE 0
             total_spend == IF HasCol(data, "spend") THEN ColSum(Cells(data, "spend")) ELSE 0
             avg_budget == IF HasCol(data, "budget") THEN ColMean(Cells(data, "budget")) ELSE Num(0)
             avg_spend == IF HasCol(data, "spend") THEN ColMean(Cells(data, "spend")) ELSE Num(0)
         IN  Report([template |-> "budget_analysis",
                     total_budget |-> Fmt2(Num(total_budget)),
                     total_spend |-> Fmt2(Num(total_spend)),
                     budget_utilization |-> Utilization(total_spend, total_budget),
                     avg_budget |-> Fmt2(avg_budget),
                     avg_spend |-> Fmt2(avg_spend),
                     within_limits |-> Utilization(total_spend, total_budget) <= 1000,
                     increase_budget |->
                         HasCol(data, "roi") /\ Gt(ColMean(Cells(data, "roi")), HighRoi * Scale)])

\* 'mean' and 'sum' are asked of roi, spend and budget: a column that is not
\* there raises KeyError, and index[0] of no group at all raises IndexError
analyze_channel_query(data) ==
    LET \* data.groupby('channel').agg({'roi': 'mean', 'spend': 'sum', 'budget': 'sum'})
        \*     .round(2).sort_values('roi', ascending=False)
        ChannelPerformance(df) ==
            LET keys == GroupKeys(df)
            IN  SortByRoiDesc([i \in 1..Len(keys) |->
                    [channel |-> keys[i],
                     roi |-> Round2(ColMean(GroupCells(df, "roi", keys[i]))),
                     spend |-> Round2(Num(ColSum(GroupCells(df, "spend", keys[i])))),
                     budget |-> Round2(Num(ColSum(GroupCells(df, "budget", keys[i]))))]])
    IN  IF ~data.present \/ ~HasCol(data, "channel") THEN Report([template |-> "channel_upload"])
        ELSE IF ~({"roi", "spend", "budget"} \subseteq Columns(data)) THEN Raised("KeyError")
        ELSE LET channel_performance == ChannelPerformance(data)
                 m == Len(channel_performance)
             IN  IF m = 0 THEN Raised("IndexError")
                 ELSE Report([template |-> "channel_performance",
                              rankings |-> [i \in 1..(IF m < 5 THEN m ELSE 5) |->
                                               [channel |-> channel_performance[i].channel,
                                                roi |-> Fmt2(channel_performance[i].roi),
                                                spend |-> channel_performance[i].spend]],
                              best_channel |-> channel_performance[1].channel,
                              best_roi |-> Fmt2(channel_performance[1].roi),
                              worst_channel |-> channel_performance[m].channel,
                              worst_roi |-> Fmt2(channel_performance[m].roi)])

LowRoi == 10
TopRoi == 50
FewChannels == 3
LowEngagement == 2

\* rows with spend < budget * 0.8
Underutilized(data) ==
    {i \in 1..data.n :
        /\ IsNum(Cells(data, "spend")[i]) /\ IsNum(Cells(data, "budget")[i])
        /\ Cells(data, "spend")[i].v * 10 < Cells(data, "budget")[i].v * 8}

NUnique(cells) == Cardinality({cells[i] : i \in {j \in 1..Len(cells) : ~IsNa(cells[j])}})


provide_optimization_suggestions(data) ==
    IF ~data.present THEN Report([template |-> "optimization_upload"])
    ELSE LET avg_roi == IF HasCol(data, "roi") THEN ColMean(Cells(data, "roi")) ELSE NaN
             roi_tip ==
                 IF ~HasCol(data, "roi") THEN <<>>
                 ELSE IF Lt(avg_roi, LowRoi * Scale) THEN <<[tip |-> "target", count |-> 0]>>
                 ELSE IF Gt(avg_roi, TopRoi * Scale) THEN <<[tip |-> "scale", count |-> 0]>>
                 ELSE <<>>
             budget_tip ==
                 IF HasCol(data, "budget") /\ HasCol(data, "spend")
                        /\ Underutilized(data) # {}
                     THEN <<[tip |-> "reallocate", count |-> Cardinality(Underutilized(data))]>>
                     ELSE <<>>
             channel_tip ==
                 IF HasCol(data, "channel") /\ NUnique(Cells(data, "channel")) < FewChannels
                     THEN <<[tip |-> "diversify", count |-> 0]>>
                     ELSE <<>>
             engagement_tip ==
                 IF HasCol(data, "engagement_rate")
                        /\ \E i \in 1..data.n :
                              Lt(Cells(data, "engagement_rate")[i], LowEngagement * Scale)
                     THEN <<[tip |-> "creative", count |-> 0]>>
                     ELSE <<>>
             suggestions == roi_tip \o budget_tip \o channel_tip \o engagement_tip
         IN  Report([template |-> "optimization",
                     suggestions |->
                         IF suggestions = <<>>
                             THEN <<[tip |-> "performing_well", count |-> 0],
                                    [tip |-> "continuous_testing", count |-> 0],
                                    [tip |-> "deep_dive", count |-> 0]>>
                             ELSE suggestions])

RECURSIVE TrendsOf(_, _)
TrendsOf(data, metrics) ==
    LET \* The sign of the slope np.polyfit(arange(len(values)), values, 1)[0] of the
        \* least-squares line: that of n * sum(x*y) - sum(x) * sum(y) over x = 0..n-1,
        \* taken here over the values in hundredths (rounding of the fit is not modelled)
        SlopeSign(vs) ==
            LET n == Len(vs)
                u == [i \in 1..n |-> vs[i].v \div (Scale \div 100)]
                sxy == SeqSum([i \in 1..n |-> (i - 1) * u[i]])
                sx == SeqSum([i \in 1..n |-> i - 1])
                cov == n * sxy - sx * SeqSum(u)
            IN  IF cov > 0 THEN 1 ELSE IF cov < 0 THEN -1 ELSE 0
    IN  IF metrics = <<>> THEN <<>>
        ELSE (IF HasCol(data, Head(metrics)) /\ Len(Values(Cells(data, Head(metrics)))) > 1
                  THEN <<[metric |-> Head(metrics),
                          slope |-> SlopeSign(Values(Cells(data, Head(metrics))))]>>
                  ELSE <<>>)
             \o TrendsOf(data, Tail(metrics))

analyze_performance_trends(data) ==
    LET TrendMetrics == <<"roi", "engagement_rate", "spend", "revenue">>
    IN  IF ~data.present THEN Report([template |-> "trends_upload"])
        ELSE LET trends == TrendsOf(data, TrendMetrics)
             IN  Report([template |-> "trends",
                         trends |-> trends,
                         campaign_count |-> data.n,
                         consistent |-> Len(trends) > 0,
                         declining |-> \E i \in 1..Len(trends) : trends[i].slope < 0])

\* provide_general_insights without the test for None: len(None) raises
provide_general_insights_unguarded(data) ==
    IF ~data.present THEN Raised("TypeError")
    ELSE Report([template |-> "overview", total_campaigns |-> data.n, insights |-> <<>>])

provide_general_insights(data) ==
    IF ~data.present THEN Report([template |-> "assistant_hello"])
    ELSE Report([template |-> "overview",
                 total_campaigns |-> data.n,
                 insights |->
                     (IF HasCol(data, "channel")
                          THEN <<[what |-> "channels",
                                  figure |-> Num(NUnique(Cells(data, "channel")))]>>
                          ELSE <<>>)
                     \o (IF HasCol(data, "roi")
                            THEN <<[what |-> "avg_roi",
                                    figure |-> Fmt2(ColMean(Cells(data, "roi")))]>>
                            ELSE <<>>)
                     \o (IF HasCol(data, "spend")
                            THEN <<[what |-> "total_spend",
                                    figure |-> Fmt2(Num(ColSum(Cells(data, "spend"))))]>>
                            ELSE <<>>)])

---------------------------------------------------------------------------
(* CampaignOptimizer.get_ai_response *)

KwRoi == {<<"r", "o", "i">>, <<"r", "e", "t", "u", "r", "n">>,
          <<"p", "r", "o", "f", "i", "t">>}
KwBudget == {<<"b", "u", "d", "g", "e", "t">>, <<"s", "p", "e", "n", "d">>,
             <<"c", "o", "s", "t">>}
KwChannel == {<<"c", "h", "a", "n", "n", "e", "l">>,
              <<"p", "l", "a", "t", "f", "o", "r", "m">>}
KwOptimize == {<<"o", "p", "t", "i", "m", "i", "z", "e">>,
               <<"i", "m", "p", "r", "o", "v", "e">>, <<"b", "e", "t", "t", "e", "r">>}
KwTrend == {<<"t", "r", "e", "n", "d">>,
            <<"p", "e", "r", "f", "o", "r", "m", "a", "n", "c", "e">>,
            <<"a", "n", "a", "l", "y", "t", "i", "c", "s">>}

\* any(word in text for word in words)
AnyIn(words, text) == \E word \in words : Contains(text, word)

\* A generator that returns its report and sorts the frame it was handed in place
Ran_sorting_in_place(generator, out, data) ==
    [calls |-> <<generator>>, out |-> out,
     data |-> IF data.present
                  THEN [data EXCEPT !.col = [c \in DOMAIN data.col |->
                                               [data.col[c] EXCEPT !.cells = Reverse(@)]]]
              ELSE data]

\* return self.<generator>(campaign_data): the generator that ran, what it
\* returned or raised, and the frame as the generator leaves it; no generator
\* assigns to the frame or to a column of it
Ran(generator, out, data) == [calls |-> <<generator>>, out |-> out, data |-> data]

\* get_ai_response without the lower(): the keywords are sought in the query as typed
get_ai_response_as_typed(user_input, campaign_data_) ==
    IF AnyIn(KwRoi, user_input)
        THEN Ran("analyze_roi_query", analyze_roi_query(campaign_data_), campaign_data_)
    ELSE IF AnyIn(KwBudget, user_input)
        THEN Ran("analyze_budget_query", analyze_budget_query(campaign_data_), campaign_data_)
    ELSE IF AnyIn(KwChannel, user_input)
        THEN Ran("analyze_channel_query", analyze_channel_query(campaign_data_), campaign_data_)
    ELSE IF AnyIn(KwOptimize, user_input)
        THEN Ran("provide_optimization_suggestions",
                 provide_optimization_suggestions(campaign_data_), campaign_data_)
    ELSE IF AnyIn(KwTrend, user_input)
        THEN Ran("analyze_performance_trends", analyze_performance_trends(campaign_data_), campaign_data_)
    ELSE Ran("provide_general_insights", provide_general_insights(campaign_data_), campaign_data_)

\* The generators that ran, in order, and what the last one returned or raised
get_ai_response(user_input, campaign_data_) ==
    LET user_input_lower == Lower(user_input)
    IN  IF AnyIn(KwRoi, user_input_lower)
            THEN Ran("analyze_roi_query", analyze_roi_query(campaign_data_), campaign_data_)
        ELSE IF AnyIn(KwBudget, user_input_lower)
            THEN Ran("analyze_budget_query", analyze_budget_query(campaign_data_), campaign_data_)
        ELSE IF AnyIn(KwChannel, user_input_lower)
            THEN Ran("analyze_channel_query", analyze_channel_query(campaign_data_), campaign_data_)
        ELSE IF AnyIn(KwOptimize, user_input_lower)
            THEN Ran("provide_optimization_suggestions",
                     provide_optimization_suggestions(campaign_data_), campaign_data_)
        ELSE IF AnyIn(KwTrend, user_input_lower)
            THEN Ran("analyze_performance_trends", analyze_performance_trends(campaign_data_), campaign_data_)
        ELSE Ran("provide_general_insights", provide_general_insights(campaign_data_), campaign_data_)

---------------------------------------------------------------------------
(* The ledger, driven: inputs of the EmailManager operations *)

AddrPlain == <<"a", "@", "b", ".", "c", "o">>
AddrPadded == <<" ", "x", "@", "y", ".", "i", "o", " ">>

NameSpring == <<"S", "p", "r", "i", "n", "g">>
NameTest == <<"T", "e", "s", "t">>

SubjectHello == <<"H", "e", "l", "l", "o">>

\* EmailManager.__init__ creates an empty history only when the session has
\* none: the session may hold up to MaxLedger entries, as save_campaign_history
\* builds them
InitLedger ==
    /\ LET SessionEntries(i) ==
               {campaign_record(i, NameSpring, SubjectHello, <<AddrPlain>>, 150, 20),
                campaign_record(i, NameTest, SubjectHello,
                                <<AddrPlain, Strip(AddrPadded)>>, 205, 55)}
       IN  email_history \in
               UNION {{h \in [1..k -> UNION {SessionEntries(i) : i \in 1..k}] :
                          \A i \in 1..k : h[i].timestamp = i} : k \in 0..MaxLedger}
    /\ prev_history = email_history
    /\ campaign_data = NoDataset
    /\ prev_data = NoDataset
    /\ result = NoResult
    /\ rng = 0
    /\ chat_history = <<>>

\* The recipients are drawn from a plain address, a padded one, one with a
\* one-letter top-level domain and a blank; rates is the pair of
\* np.random.uniform(15, 35) and np.random.uniform(2, 8) draws, in tenths
\* The address lists: up to MaxRecipients entries, valid (one of them padded),
\* invalid or blank
AddressLists ==
    SeqsUpTo({AddrPlain, AddrPadded, <<"a", "@", "b", ".", "c">>, <<" ">>}, MaxRecipients)

ValidateEmailList ==
    /\ \E email_list \in AddressLists :
          result' = [op |-> "validate_email_list", raised |-> FALSE,
                     email_list |-> email_list, ret |-> validate_email_list(email_list)]
    /\ prev_history' = email_history
    /\ UNCHANGED email_history
    /\ UNCHANGED <<campaign_data, prev_data, rng, chat_history>>

SendCampaign ==
    \E campaign_name \in {NameSpring, NameTest},
       recipients \in AddressLists,
       rates \in {<<150, 20>>, <<205, 55>>} :
        LET out == send_campaign(email_history, Len(email_history) + 1, campaign_name,
                                 SubjectHello, <<"B", "o", "d", "y">>, recipients,
                                 rates[1], rates[2])
        IN  /\ email_history' = out.history
            /\ prev_history' = email_history
            /\ result' = [op |-> "send_campaign", raised |-> FALSE, ret |-> out.ret,
                          campaign_name |-> campaign_name, subject |-> SubjectHello,
                          recipients |-> recipients]
            /\ UNCHANGED <<campaign_data, prev_data, rng, chat_history>>

GetCampaignHistory ==
    /\ result' = [op |-> "get_campaign_history", raised |-> FALSE,
                  ret |-> get_campaign_history(email_history)]
    /\ prev_history' = email_history
    /\ UNCHANGED email_history
    /\ UNCHANGED <<campaign_data, prev_data, rng, chat_history>>

CreateCampaignReport ==
    LET out == create_campaign_report(email_history)
    IN  /\ result' = [op |-> "create_campaign_report", raised |-> out.raised,
                      ret |-> out.report]
        /\ prev_history' = email_history
        /\ UNCHANGED email_history
        /\ UNCHANGED <<campaign_data, prev_data, rng, chat_history>>

GenerateEmailAnalytics ==
    LET out == generate_email_analytics(email_history)
    IN  /\ result' = [op |-> "generate_email_analytics", raised |-> out.raised,
                      ret |-> out.analytics]
        /\ prev_history' = email_history
        /\ UNCHANGED email_history
        /\ UNCHANGED <<campaign_data, prev_data, rng, chat_history>>

ExportEmailReport ==
    \E format \in {<<"c", "s", "v">>, <<"C", "S", "V">>, <<"e", "x", "c", "e", "l">>,
                   <<"p", "d", "f">>} :
        LET out == export_email_report(email_history, format)
        IN  /\ result' = [op |-> "export_email_report", raised |-> out.raised,
                          ret |-> [kind |-> out.kind, rows |-> out.rows],
                          format |-> format]
            /\ prev_history' = email_history
            /\ UNCHANGED email_history
            /\ UNCHANGED <<campaign_data, prev_data, rng, chat_history>>

NextLedger ==
    \/ ValidateEmailList
    \/ SendCampaign
    \/ GetCampaignHistory
    \/ CreateCampaignReport
    \/ GenerateEmailAnalytics
    \/ ExportEmailReport

SpecLedger == InitLedger /\ [][NextLedger]_vars


---------------------------------------------------------------------------
(* The router, driven: queries and data frames *)

\* No dataset, or a frame of up to MaxRows rows with any of the columns the
\* generators look for; the channel column holds labels or nothing
InitRouter ==
    LET \* Row i of the frames the router is tried on; rows 1 and 2 are those of
        \* tests/test_utils.py (roi 25.5 and 15.2, Email and Social)
        RouterCell(c, i) ==
            CASE c = "roi" -> Num(CASE i % 3 = 1 -> 255000 [] i % 3 = 2 -> 152000 [] OTHER -> -100000)
              [] c = "budget" -> Num((1 + (i % 3)) * Scale)
              [] c = "spend" -> Num((1 + (i % 2)) * Scale)
              [] c = "revenue" -> Num((2 + (i % 2)) * Scale)
              [] c = "channel" -> Str(1 + ((i + 1) % 2))
              [] OTHER -> Num((i % 3) * 15000)
    IN  /\ LET \* blank: the channel column of the file was empty, read as float64 NaN;
               \* close: the roi values are 10.001 and 10.004, apart in the third decimal
               RouterFrame(cols, n, kind) ==
                   Frame(n, [c \in cols |->
                                IF c = "channel" /\ kind = "blank"
                                    THEN Column("num", [i \in 1..n |-> NaN])
                                ELSE IF c = "roi" /\ kind = "close"
                                    THEN Column("num", [i \in 1..n |->
                                                           Num(100010 + 30 * ((i + 1) % 2))])
                                ELSE Column(IF c = "channel" THEN "obj" ELSE "num",
                                            [i \in 1..n |-> RouterCell(c, i)])])
           IN  campaign_data \in {NoDataset} \cup
                   {RouterFrame(cols, n, kind) :
                       cols \in SUBSET {"roi", "budget", "spend", "revenue", "channel",
                                        "engagement_rate"},
                       n \in 0..MaxRows,
                       kind \in {"labels", "blank", "close"}}
        /\ prev_data = campaign_data
        /\ email_history = <<>>
        /\ prev_history = <<>>
        /\ result = NoResult
        /\ rng = 0
        /\ chat_history = <<>>

\* One call of get_ai_response on the frame.  The generators only read it.
GetAiResponse ==
    LET \* The queries: up to MaxFrags fragments run together
        Queries ==
            LET QueryFragments ==
                    {<<"R", "O", "I">>, <<"B", "u", "d", "g", "e", "t">>,
                     <<"c", "h", "a", "n", "n", "e", "l">>, <<"b", "e", "t", "t", "e", "r">>,
                     <<"t", "r", "e", "n", "d">>, <<"p", "r", "o">>, <<"f", "i", "t">>,
                     <<"h", "i", " ">>}
            IN  {Concat(fs) : fs \in SeqsUpTo(QueryFragments, MaxFrags)}
    IN  /\ result = NoResult
        /\ \E user_input \in Queries :
              LET ran == get_ai_response(user_input, campaign_data)
              IN  /\ result' = [op |-> "get_ai_response", user_input |-> user_input,
                                calls |-> ran.calls, raised |-> ran.out.raised,
                                exc |-> ran.out.exc, ret |-> ran.out.report,
                                asked |-> 1, earlier |-> NoResult]
                  /\ campaign_data' = ran.data
        /\ prev_data' = campaign_data
        /\ UNCHANGED <<email_history, prev_history, rng, chat_history>>

\* The same text is submitted a second time while the session holds the same
\* dataset; what the first call gave is kept beside what this one gives
GetAiResponseAgain ==
    /\ result.op = "get_ai_response" /\ result.asked = 1
    /\ LET ran == get_ai_response(result.user_input, campaign_data)
       IN  /\ result' = [op |-> "get_ai_response", user_input |-> result.user_input,
                         calls |-> ran.calls, raised |-> ran.out.raised,
                         exc |-> ran.out.exc, ret |-> ran.out.report,
                         asked |-> 2,
                         earlier |-> [raised |-> result.raised, exc |-> result.exc,
                                      ret |-> result.ret]]
           /\ campaign_data' = ran.data
    /\ prev_data' = campaign_data
    /\ UNCHANGED <<email_history, prev_history, rng, chat_history>>

NextRouter == GetAiResponse \/ GetAiResponseAgain

SpecRouter == InitRouter /\ [][NextRouter]_vars

---------------------------------------------------------------------------
(* Claims about the router, checked under SpecRouter *)

\* The categories in their order of precedence, each with its generator
Categories ==
    <<[generator |-> "analyze_roi_query", keywords |-> KwRoi],
      [generator |-> "analyze_budget_query", keywords |-> KwBudget],
      [generator |-> "analyze_channel_query", keywords |-> KwChannel],
      [generator |-> "provide_optimization_suggestions", keywords |-> KwOptimize],
      [generator |-> "analyze_performance_trends", keywords |-> KwTrend]>>

\* Category i has a keyword in the lower-cased query
Hits(user_input, i) ==
    \E word \in Categories[i].keywords : Contains(Lower(user_input), word)

\* C1: a query is handled by the generator of the first category, in the order
\* ROI, Budget, Channel, Optimization, Trend, that has a keyword in the
\* lower-cased query, by the general-insights generator when none has, and
\* exactly one generator runs.
C1_FirstMatchingCategory ==
    result.op = "get_ai_response" =>
        /\ Len(result.calls) = 1
        /\ \A i \in 1..Len(Categories) :
              (Hits(result.user_input, i) /\ \A j \in 1..(i - 1) : ~Hits(result.user_input, j))
                  => result.calls[1] = Categories[i].generator
        /\ (\A i \in 1..Len(Categories) : ~Hits(result.user_input, i))
              => result.calls[1] = "provide_general_insights"

\* C1's case: a query typed with capitals that names both budget and ROI has
\* been answered
C1_Witness ==
    /\ result.op = "get_ai_response"
    /\ result.user_input = <<"B", "u", "d", "g", "e", "t", "R", "O", "I">>
    /\ result.calls = <<"analyze_roi_query">>

\* C2: with a data frame present, get_ai_response never raises and returns a
\* report, whatever the query, the number of rows and the optional columns.
C2_NeverRaisesOnData ==
    (result.op = "get_ai_response" /\ campaign_data.present) =>
        /\ ~result.raised
        /\ result.ret.template # "none"

\* C23: with no dataset, get_ai_response does not raise and returns, for every
\* query, the 'upload your data' message of the first category the query has a
\* keyword of (the assistant's greeting when it has none); the message is the
\* bare template, with no figure in it.
C23_NoDatasetUploadMessage ==
    (result.op = "get_ai_response" /\ ~campaign_data.present) =>
        LET hit == {i \in 1..Len(Categories) : Hits(result.user_input, i)}
            first == IF hit = {} THEN 6 ELSE CHOOSE i \in hit : \A j \in hit : i <= j
            message == <<"roi_upload", "budget_upload", "channel_upload",
                         "optimization_upload", "trends_upload", "assistant_hello">>
        IN  /\ ~result.raised
            /\ result.ret = [template |-> message[first]]

\* C23's case: without a dataset, a query with no keyword got the greeting and
\* a query about channels got the channel message
C23_Witness ==
    /\ result.op = "get_ai_response" /\ ~campaign_data.present
    /\ \/ result.user_input = <<"h", "i", " ">> /\ result.ret.template = "assistant_hello"
       \/ result.user_input = <<"c", "h", "a", "n", "n", "e", "l">>
              /\ result.ret.template = "channel_upload"

\* C24: a ROI query on a dataset with a roi column and at least one row is
\* answered with a report that holds the mean of roi to two decimals (20.35 for
\* the roi values 25.5 and 15.2), the maximum and the minimum of roi to two
\* decimals, and the number of rows with roi > 0 beside the number of rows.
\* The figures are in hundredths.
C24_RoiReportFigures ==
    (/\ result.op = "get_ai_response"
     /\ result.calls = <<"analyze_roi_query">>
     /\ HasCol(campaign_data, "roi") /\ campaign_data.n >= 1) =>
        LET roi == Cells(campaign_data, "roi")
            n == campaign_data.n
            hundredths == [i \in 1..n |-> roi[i].v \div (Scale \div 100)]
        IN  /\ ~result.raised
            /\ 2 * Abs(result.ret.avg_roi.v * n - SeqSum(hundredths)) <= n
            /\ \E i \in 1..n : result.ret.best_roi.v = hundredths[i]
            /\ \A i \in 1..n : result.ret.best_roi.v >= hundredths[i]
            /\ \E i \in 1..n : result.ret.worst_roi.v = hundredths[i]
            /\ \A i \in 1..n : result.ret.worst_roi.v <= hundredths[i]
            /\ result.ret.positive_campaigns = Cardinality({i \in 1..n : roi[i].v > 0})
            /\ result.ret.total_campaigns = n
            /\ roi = <<Num(255000), Num(152000)>> => result.ret.avg_roi = Num(2035)

ChannelMean(channel) == ColMean(GroupCells(campaign_data, "roi", channel)).v

\* C26: the channel report lists the channels by their mean ROI, highest first:
\* its first entry ('Best Performer') is a channel of maximum mean ROI and its
\* last ('Needs Attention') one of minimum mean ROI; the top channel of the ROI
\* report is likewise a channel of maximum mean ROI.
C26_OrderedByMeanRoi ==
    LET channels == {GroupKeys(campaign_data)[i] : i \in 1..Len(GroupKeys(campaign_data))}
    IN  /\ (/\ result.op = "get_ai_response" /\ ~result.raised
            /\ result.ret.template = "channel_performance") =>
               /\ \A i, j \in 1..Len(result.ret.rankings) :
                     i < j => ChannelMean(result.ret.rankings[i].channel)
                                  >= ChannelMean(result.ret.rankings[j].channel)
               /\ \A k \in channels : ChannelMean(result.ret.best_channel) >= ChannelMean(k)
               /\ \A k \in channels : ChannelMean(result.ret.worst_channel) <= ChannelMean(k)
        /\ (/\ result.op = "get_ai_response" /\ ~result.raised
            /\ result.ret.template = "roi_results_channel") =>
               \A k \in channels : ChannelMean(result.ret.best_channel) >= ChannelMean(k)

---------------------------------------------------------------------------
(* The derived-metric calculators, driven: frames of campaign rows *)

DerivedColumns == {"roi", "ctr", "cpa", "roas", "engagement_rate", "campaign_duration"}

U(x) == Num(x * Scale)

\* The four campaigns of the worked example: what was spent and what came back
ExampleFrame ==
    Frame(4, [spend |-> Column("num", <<U(800), U(1200), U(1800), U(1000)>>),
              revenue |-> Column("num", <<U(1200), U(1800), U(2400), U(1300)>>)])

\* A frame holds up to MaxRows of the rows, all source columns or some, the
\* date columns (datetime64 after normalisation, "obj" when still text) or not,
\* and none, one or all of the derived columns already, with values that no
\* formula yields here
InitDerived ==
    LET \* The rows the frames are made of: two ordinary campaigns, one with nothing
        \* spent, shown or converted but clicks and revenue, one of zeros only, one
        \* that lost money and converted nobody, one with cells missing
        CampaignRows ==
            {[revenue |-> U(1200), spend |-> U(800), clicks |-> U(100), impressions |-> U(10000),
              conversions |-> U(10), start_date |-> Date(1), end_date |-> Date(11)],
             [revenue |-> U(2400), spend |-> U(1800), clicks |-> U(150), impressions |-> U(15000),
              conversions |-> U(15), start_date |-> Date(2), end_date |-> Date(5)],
             [revenue |-> U(5), spend |-> U(0), clicks |-> U(5), impressions |-> U(0),
              conversions |-> U(0), start_date |-> NaT, end_date |-> Date(4)],
             [revenue |-> U(0), spend |-> U(0), clicks |-> U(0), impressions |-> U(0),
              conversions |-> U(0), start_date |-> Date(3), end_date |-> Date(3)],
             [revenue |-> U(1), spend |-> U(2), clicks |-> U(1), impressions |-> U(3),
              conversions |-> U(0), start_date |-> Date(5), end_date |-> Date(2)],
             [revenue |-> U(3), spend |-> NaN, clicks |-> NaN, impressions |-> U(4),
              conversions |-> U(1), start_date |-> Date(1), end_date |-> NaT]}
    IN  /\ LET Supplied(c, i) == IF c = "campaign_duration" THEN U(90 + i) ELSE Num(777700 + i)
               DerivedFrame(rows, sources, dates, datetype, supplied) ==
                   Frame(Len(rows),
                         [c \in sources \cup dates \cup supplied |->
                             IF c \in sources
                                 THEN Column("num", [i \in 1..Len(rows) |-> rows[i][c]])
                             ELSE IF c \in dates
                                 THEN Column(datetype, [i \in 1..Len(rows) |-> rows[i][c]])
                             ELSE Column("num", [i \in 1..Len(rows) |-> Supplied(c, i)])])
           IN  campaign_data \in
                   {DerivedFrame(rows, sources, dates, datetype, supplied) :
                       rows \in SeqsUpTo(CampaignRows, MaxRows),
                       sources \in {{"revenue", "spend", "clicks", "impressions", "conversions"},
                                    {"revenue", "spend"}, {"clicks", "impressions"}, {}},
                       dates \in {{}, {"start_date", "end_date"}},
                       datetype \in {"dt", "obj"},
                       supplied \in {{}, DerivedColumns} \cup {{c} : c \in DerivedColumns}}
                   \cup {ExampleFrame}
        /\ prev_data = campaign_data
        /\ email_history = <<>>
        /\ prev_history = <<>>
        /\ result = NoResult
        /\ rng = 0
        /\ chat_history = <<>>

\* df = add_derived_columns(df): the frame is changed in place and returned.
\* again: the call before this one was add_derived_columns too.
AddDerivedColumns ==
    /\ campaign_data' = add_derived_columns(campaign_data)
    /\ prev_data' = campaign_data
    /\ result' = [op |-> "add_derived_columns", raised |-> FALSE,
                  again |-> (result.op = "add_derived_columns")]
    /\ UNCHANGED <<email_history, prev_history, rng, chat_history>>

\* calculate_derived_metrics(df): df is left alone, a new frame is returned
CalculateDerivedMetrics ==
    LET out == calculate_derived_metrics(campaign_data)
    IN  /\ result' = [op |-> "calculate_derived_metrics", raised |-> out.raised,
                      ret |-> out.df]
        /\ prev_data' = campaign_data
        /\ UNCHANGED <<campaign_data, email_history, prev_history, rng, chat_history>>

NextDerived ==
    \/ AddDerivedColumns
    \/ CalculateDerivedMetrics

SpecDerived == InitDerived /\ [][NextDerived]_vars

---------------------------------------------------------------------------
(* Claims about the derived metrics, checked under SpecDerived *)

\* The frame the last calculator call produced, and the one it was given
Produced == IF result.op = "add_derived_columns" THEN campaign_data ELSE result.ret
Given == prev_data
Calculated == result.op \in {"add_derived_columns", "calculate_derived_metrics"} /\ ~result.raised

\* The ratio c was computed by the last call from the columns num and den
Computed(c, num, den) ==
    /\ Calculated
    /\ HasCol(Produced, c) /\ {num, den} \subseteq Columns(Given)
    /\ result.op = "add_derived_columns" => ~HasCol(Given, c)

\* Where the denominator is exactly zero, the ratio is the no-data value
NoDataOnZero(c, den) ==
    \A i \in 1..Given.n :
        (IsNum(Cells(Given, den)[i]) /\ Cells(Given, den)[i].v = 0)
            => Cells(Produced, c)[i] = NaN

\* C3: after derived metrics are computed, every ROI, CTR, CPA and ROAS whose
\* denominator (spend, impressions, conversions, spend) is exactly zero is the
\* no-data value, never an infinity, and no such call raises.
C3_ZeroDenominatorIsNoData ==
    /\ (result.op = "calculate_derived_metrics" /\ Numeric(Given, Columns(Given)))
          => ~result.raised
    /\ Computed("roi", "revenue", "spend") => NoDataOnZero("roi", "spend")
    /\ Computed("ctr", "clicks", "impressions") => NoDataOnZero("ctr", "impressions")
    /\ Computed("cpa", "spend", "conversions") => NoDataOnZero("cpa", "conversions")
    /\ Computed("roas", "revenue", "spend") => NoDataOnZero("roas", "spend")

\* C4: a derived column that is present before a calculator call holds the
\* same values after it, for roi, ctr, cpa, roas, engagement_rate and
\* campaign_duration, and for both calculators.
C4_SuppliedValuesKept ==
    Calculated =>
        \A c \in DerivedColumns \cap Columns(Given) :
            HasCol(Produced, c) /\ Cells(Produced, c) = Cells(Given, c)

\* C5: running add_derived_columns on the frame it has just returned changes
\* neither the columns nor any value.
C5_AddDerivedIdempotent ==
    (result.op = "add_derived_columns" /\ result.again) => campaign_data = prev_data

\* C5's case: the second run follows a first run that added roi, ctr,
\* engagement_rate, campaign_duration and cpa to a frame of two rows
C5_Witness ==
    /\ result.op = "add_derived_columns" /\ result.again
    /\ campaign_data.n = 2
    /\ {"roi", "ctr", "engagement_rate", "campaign_duration", "cpa"} \subseteq Columns(campaign_data)
    /\ Cells(campaign_data, "roi")[1] # Cells(campaign_data, "roi")[2]

\* C17: in every record with a revenue and a non-zero spend, the ROI a
\* calculator computes is (revenue - spend) / spend * 100 rounded to two
\* decimals: it is a whole number of hundredths and no further than half a
\* hundredth from the quotient (the amounts of the frames are whole).  For
\* spend 800, 1200, 1800, 1000 and revenue 1200, 1800, 2400, 1300 the column is
\* 50.0, 50.0, 33.33, 30.0.
C17_RoiRounded ==
    Computed("roi", "revenue", "spend") =>
        /\ \A i \in 1..Given.n :
              LET r == Cells(Given, "revenue")[i]
                  s == Cells(Given, "spend")[i]
                  roi == Cells(Produced, "roi")[i]
              IN  (IsNum(r) /\ IsNum(s) /\ s.v # 0) =>
                      /\ IsNum(roi)
                      /\ roi.v % (Scale \div 100) = 0
                      /\ 2 * Abs((roi.v \div (Scale \div 100)) * (s.v \div Scale)
                                 - ((r.v - s.v) \div Scale) * 10000)
                            <= Abs(s.v \div Scale)
        /\ Given = ExampleFrame
              => Cells(Produced, "roi") = <<Num(500000), Num(500000), Num(333300), Num(300000)>>

\* C17's case: a calculator has computed the ROI of the four campaigns of the
\* example, the third of which needs the rounding
C17_Witness ==
    /\ Calculated
    /\ Given = ExampleFrame
    /\ HasCol(Produced, "roi")
    /\ Cells(Produced, "roi")[3] = Num(333300)

---------------------------------------------------------------------------
(* preprocess_data, driven: raw frames as uploaded *)

\* A raw frame holds up to MaxRows of the rows and one of eight sets of columns
InitPre ==
    LET \* The dtype pandas gives a raw column: object when a cell is text or the frame
        \* has no row; float64 when the cells are numbers and NaN.  A column with no
        \* present cell is float64 when read from a CSV file and object when built
        \* from None values.
        InferDtype(cells, from_csv) ==
            IF cells = <<>> THEN "obj"
            ELSE IF \E i \in 1..Len(cells) : cells[i].k = "str" THEN "obj"
            ELSE IF \A i \in 1..Len(cells) : IsNa(cells[i]) THEN (IF from_csv THEN "num" ELSE "obj")
            ELSE "num"
        \* Raw rows: the three of tests/test_data_loading.py in shape (a full one, one
        \* without budget and channel, one without spend), one with text where numbers
        \* belong, one wholly empty, one with zero spend
        RawRows ==
            {[campaign_id |-> Txt(<<"C", "1">>), budget |-> U(1000),
              spend |-> U(800), revenue |-> U(1200),
              channel |-> Txt(<<"E", "m", "a", "i", "l">>),
              campaign_duration |-> U(30),
              start_date |-> Txt(<<"2", "0", "2", "4", "-", "0", "1", "-", "0", "1">>),
              end_date |-> Txt(<<"2", "0", "2", "4", "-", "0", "1", "-", "1", "1">>),
              impressions |-> U(10000), clicks |-> U(100), conversions |-> U(10),
              roi |-> U(50), engagement_rate |-> U(1)],
             [campaign_id |-> Txt(<<"C", "2">>), budget |-> NaN, spend |-> U(1200),
              revenue |-> U(2400), channel |-> NaN, campaign_duration |-> NaN,
              start_date |-> Txt(<<"2", "0", "2", "4", "-", "0", "1", "-", "0", "5">>),
              end_date |-> Txt(<<"2", "0", "2", "4", "-", "0", "2", "-", "0", "4">>),
              impressions |-> NaN, clicks |-> U(150), conversions |-> U(15),
              roi |-> NaN, engagement_rate |-> Txt(<<"n", "/", "a">>)],
             [campaign_id |-> Txt(<<"C", "3">>), budget |-> U(1500), spend |-> NaN,
              revenue |-> NaN, channel |-> Txt(<<"S", "o", "c", "i", "a", "l">>),
              campaign_duration |-> U(7), start_date |-> Txt(<<"n", "/", "a">>),
              end_date |-> Txt(<<"2", "0", "2", "4", "-", "0", "1", "-", "1", "1">>),
              impressions |-> Txt(<<"m", "a", "n", "y">>), clicks |-> NaN, conversions |-> NaN,
              roi |-> Txt(<<"n", "/", "a">>), engagement_rate |-> U(2)],
             [campaign_id |-> Txt(<<"C", "4">>), budget |-> Txt(<<"n", "/", "a">>),
              spend |-> Txt(<<"1", "2">>), revenue |-> U(5),
              channel |-> Txt(<<"E", "m", "a", "i", "l">>),
              campaign_duration |-> NaN, start_date |-> NaN, end_date |-> NaN,
              impressions |-> U(0), clicks |-> Txt(<<"n", "/", "a">>),
              conversions |-> Txt(<<"t", "e", "n">>), roi |-> U(5), engagement_rate |-> NaN],
             [campaign_id |-> NaN, budget |-> NaN, spend |-> NaN, revenue |-> NaN,
              channel |-> NaN, campaign_duration |-> NaN, start_date |-> NaN,
              end_date |-> NaN, impressions |-> NaN, clicks |-> NaN, conversions |-> NaN,
              roi |-> NaN, engagement_rate |-> NaN],
             [campaign_id |-> Txt(<<"C", "1">>), budget |-> U(2000), spend |-> U(0),
              revenue |-> U(100), channel |-> Txt(<<"S", "o", "c", "i", "a", "l">>),
              campaign_duration |-> U(30),
              start_date |-> Txt(<<"2", "0", "2", "4", "-", "0", "1", "-", "1", "1">>),
              end_date |-> Txt(<<"2", "0", "2", "4", "-", "0", "1", "-", "0", "1">>),
              impressions |-> U(20000), clicks |-> U(5), conversions |-> U(0),
              roi |-> U(25), engagement_rate |-> U(3)]}
    IN  /\ LET RawFrame(rows, cols, from_csv) ==
                   Frame(Len(rows),
                         [c \in cols |->
                             LET cells == [i \in 1..Len(rows) |-> rows[i][c]]
                             IN  Column(InferDtype(cells, from_csv), cells)])
           IN  campaign_data \in
                   {RawFrame(rows, cols, from_csv) :
                       rows \in SeqsUpTo(RawRows, MaxRows),
                       cols \in {{"campaign_id", "budget", "spend", "channel"},
                                 {"campaign_id", "budget", "spend", "revenue", "channel"},
                                 {"budget"},
                                 {"channel", "campaign_duration"},
                                 {"spend", "campaign_duration", "start_date", "end_date"},
                                 {"campaign_id", "budget", "spend", "revenue", "channel",
                                  "campaign_duration", "start_date", "end_date"},
                                 {"spend", "revenue", "impressions", "clicks", "conversions"},
                                 {"budget", "revenue", "roi", "engagement_rate"}},
                       from_csv \in BOOLEAN}
        /\ prev_data = campaign_data
        /\ email_history = <<>>
        /\ prev_history = <<>>
        /\ result = NoResult
        /\ rng = 0
        /\ chat_history = <<>>

\* df = preprocess_data(df): the frame is processed in place and returned
PreprocessData ==
    /\ campaign_data' = preprocess_data(campaign_data)
    /\ prev_data' = campaign_data
    /\ result' = [op |-> "preprocess_data", raised |-> FALSE]
    /\ UNCHANGED <<email_history, prev_history, rng, chat_history>>

SpecPre == InitPre /\ [][PreprocessData]_vars

---------------------------------------------------------------------------
(* Claims about preprocess_data, checked under SpecPre *)

\* C6: after preprocess_data, no numeric and no categorical column of the raw
\* input holds a missing value: a cell that was missing holds the column's
\* median (numeric) or its mode, 'Unknown' when there is no mode (categorical),
\* and a cell that was present is as it was.
C6_NoMissingAfterPreprocess ==
    result.op = "preprocess_data" =>
        LET typed == Coerce(prev_data)
        IN  \A c \in Columns(prev_data) :
                typed.col[c].dtype \in {"num", "obj"} =>
                    \A i \in 1..campaign_data.n :
                        LET before == typed.col[c].cells[i]
                            after == Cells(campaign_data, c)[i]
                        IN  /\ ~IsNa(after)
                            /\ ~IsNa(before) => after = before
                            /\ (IsNa(before) /\ typed.col[c].dtype = "num")
                                  => after = Median(typed.col[c].cells)
                            /\ (IsNa(before) /\ typed.col[c].dtype = "obj")
                                  => after = ModeOrUnknown(typed.col[c].cells)

\* C18: a record whose spend is missing in the raw input (empty, or text that
\* is no number) has no ROI after preprocess_data: the ROI is never computed
\* from a spend that was filled in.
C18_NoRoiWithoutSpend ==
    (result.op = "preprocess_data" /\ HasCol(prev_data, "spend") /\ HasCol(campaign_data, "roi"))
        => \A i \in 1..prev_data.n :
               IsNa(ToNumericCell(Cells(prev_data, "spend")[i]))
                   => IsNa(Cells(campaign_data, "roi")[i])

\* C20: for each of budget, spend, revenue, impressions, clicks, roi,
\* engagement_rate and conversions, preprocess_data does not raise, the column
\* ends up numeric, and no cell that held text which is no number still holds
\* text.
C20_TextBecomesNoData ==
    result.op = "preprocess_data" =>
        /\ ~result.raised
        /\ \A c \in {"budget", "spend", "revenue", "impressions", "clicks", "roi",
                     "engagement_rate", "conversions"} \cap Columns(prev_data) :
              /\ HasCol(campaign_data, c)
              /\ campaign_data.col[c].dtype = "num"
              /\ \A i \in 1..prev_data.n :
                    (Cells(prev_data, c)[i].k = "str" /\ ~AllIn(Strip(Cells(prev_data, c)[i].v), Digits))
                        => Cells(campaign_data, c)[i].k # "str"

\* The derived columns the last preprocess_data call wrote
Written ==
    {c \in {"roi", "ctr", "engagement_rate", "cpa"} :
        HasCol(campaign_data, c) /\ ~HasCol(prev_data, c)}
    \cup (IF {"start_date", "end_date"} \subseteq Columns(prev_data)
             /\ HasCol(campaign_data, "campaign_duration")
          THEN {"campaign_duration"} ELSE {})

\* C19: within one preprocess_data call coercion comes first, the backfill
\* second and the derived columns last.  A missing cell of a raw column holds
\* the median or the mode of the coerced column; a derived column written by
\* the call holds what its formula gives on the backfilled frame, so none of
\* its values, the missing ones included, was replaced by a backfill value.
C19_StagesInOrder ==
    result.op = "preprocess_data" =>
        LET typed == Coerce(prev_data)
            final == campaign_data
        IN  /\ \A c \in Columns(prev_data) \ Written :
                  \A i \in 1..prev_data.n :
                      LET before == typed.col[c].cells[i]
                          after == Cells(final, c)[i]
                      IN  after = IF ~IsNa(before) THEN before
                                  ELSE IF typed.col[c].dtype = "num"
                                      THEN Median(typed.col[c].cells)
                                  ELSE IF typed.col[c].dtype = "obj"
                                      THEN ModeOrUnknown(typed.col[c].cells)
                                  ELSE before
            /\ \A i \in 1..final.n :
                  /\ "roi" \in Written =>
                        Cells(final, "roi")[i] =
                            RatioCell(SubCell(Cells(final, "revenue")[i], Cells(final, "spend")[i]),
                                      Cells(final, "spend")[i], 100, 2)
                  /\ "ctr" \in Written =>
                        Cells(final, "ctr")[i] =
                            RatioCell(Cells(final, "clicks")[i], Cells(final, "impressions")[i], 100, 4)
                  /\ "engagement_rate" \in Written =>
                        Cells(final, "engagement_rate")[i] = Cells(final, "ctr")[i]
                  /\ "campaign_duration" \in Written =>
                        Cells(final, "campaign_duration")[i] =
                            DaysCell(Cells(final, "end_date")[i], Cells(final, "start_date")[i])
                  /\ "cpa" \in Written =>
                        Cells(final, "cpa")[i] =
                            InfToNaN(RatioCell(Cells(final, "spend")[i],
                                               Cells(final, "conversions")[i], 1, 2))

\* C19's case: one call filled a missing spend with the median and wrote a
\* campaign_duration that has a value in one record and none in another
C19_Witness ==
    /\ result.op = "preprocess_data"
    /\ "campaign_duration" \in Written
    /\ \E i, j \in 1..campaign_data.n :
          /\ IsNa(Cells(campaign_data, "campaign_duration")[i])
          /\ IsNum(Cells(campaign_data, "campaign_duration")[j])
    /\ HasCol(prev_data, "spend")
    /\ \E k \in 1..prev_data.n :
          IsNa(Cells(prev_data, "spend")[k]) /\ IsNum(Cells(campaign_data, "spend")[k])

\* C21: every column whose name is neither a recognised date field nor a
\* recognised numeric field holds after preprocess_data exactly the cells it
\* held in the raw input, the missing ones included.
C21_UnrecognisedUntouched ==
    result.op = "preprocess_data" =>
        \A c \in Columns(prev_data) \
                 {"date", "campaign_date", "start_date", "end_date", "budget", "spend",
                  "revenue", "impressions", "clicks", "roi", "engagement_rate", "conversions"} :
            HasCol(campaign_data, c) /\ Cells(campaign_data, c) = Cells(prev_data, c)

---------------------------------------------------------------------------
(* validate_data, driven: frames with and without the required columns *)

\* A frame of up to MaxRows rows with any of campaign_id, budget, spend and
\* revenue; a column holds positive numbers, numbers some of them negative,
\* None objects, or objects the first of which is text
InitValidate ==
    /\ LET ValidateCell(kind, i) ==
               CASE kind = "positive" -> U(100 * i)
                 [] kind = "negative" -> U(100 * (i - 2))
                 [] kind = "none_objects" -> NaN
                 [] OTHER -> IF i = 1 THEN Txt(<<"n", "/", "a">>) ELSE U(100)
           ValidateFrame(kinds, n) ==
               Frame(n, [c \in DOMAIN kinds |->
                   IF c = "campaign_id"
                   THEN Column("obj", [i \in 1..n |-> Txt(<<"C", DigitsOf(i % 2)[1]>>)])
                   ELSE Column(IF kinds[c] \in {"positive", "negative"} THEN "num" ELSE "obj",
                               [i \in 1..n |-> ValidateCell(kinds[c], i)])])
       IN  campaign_data \in
               {ValidateFrame(kinds, n) :
                   kinds \in UNION {[cols -> {"positive", "negative", "none_objects", "text"}] :
                                       cols \in SUBSET {"campaign_id", "budget", "spend",
                                                        "revenue"}},
                   n \in 0..MaxRows}
    /\ prev_data = campaign_data
    /\ email_history = <<>>
    /\ prev_history = <<>>
    /\ result = NoResult
    /\ rng = 0
    /\ chat_history = <<>>

\* validation = validate_data(df)
\* heap holds the reports of the calls before, each as the caller received it
ValidateData ==
    LET heap == IF result.op = "none" THEN <<>> ELSE result.heap
        out == validate_data(campaign_data)
        made == IF out.raised THEN [id |-> 0, heap |-> heap]
                ELSE validation_results(heap, [x \in DOMAIN out \ {"df"} |-> out[x]])
    IN  /\ Len(heap) < MaxReports
        /\ result' = [op |-> "validate_data", id |-> made.id, heap |-> made.heap,
                      heap_before |-> heap] @@ out
        /\ campaign_data' = out.df
        /\ prev_data' = campaign_data
        /\ UNCHANGED <<email_history, prev_history, rng, chat_history>>

SpecValidate == InitValidate /\ [][ValidateData]_vars

---------------------------------------------------------------------------
(* Claims about validate_data, checked under SpecValidate *)

Reported == result.op = "validate_data" /\ ~result.raised

AbsentRequired ==
    {c \in {"campaign_id", "budget", "spend"} : ~HasCol(campaign_data, c)}

\* C10: in every report is_valid is false exactly when a required column
\* (campaign_id, budget, spend) is absent, the absence is an error, and
\* is_valid is true exactly when errors is empty; type findings and negative
\* values are warnings and leave is_valid alone.
C10_ValidIffRequiredPresent ==
    Reported =>
        /\ result.is_valid <=> (AbsentRequired = {})
        /\ result.is_valid <=> (result.errors = <<>>)
        /\ AbsentRequired # {} =>
              \E i \in 1..Len(result.errors) :
                  /\ result.errors[i].kind = "missing_required"
                  /\ {result.errors[i].columns[j] : j \in 1..Len(result.errors[i].columns)}
                        = AbsentRequired
        /\ \A i \in 1..Len(result.warnings) :
              result.warnings[i].kind \in {"should_be_numeric", "negative_values"}

\* C10's case: a report that is valid although it warns of a budget column
\* that is not numeric and of negative spend
C10_Witness ==
    /\ Reported
    /\ result.is_valid
    /\ \E i, j \in 1..Len(result.warnings) :
          /\ result.warnings[i] = TypeWarning("budget")
          /\ result.warnings[j] = NegativeWarning("spend")

\* C11: validate_data never raises: for every dataset it returns a report with
\* the data-quality counters, and when budget or spend is of a non-numeric
\* (text) type the report carries the 'should be numeric' warning.
C11_ValidateAlwaysReports ==
    result.op = "validate_data" =>
        /\ ~result.raised
        /\ result.info.total_rows = campaign_data.n
        /\ result.info.total_columns = Cardinality(Columns(campaign_data))
        /\ \A c \in {"budget", "spend"} :
              (HasCol(campaign_data, c) /\ campaign_data.col[c].dtype = "obj")
                  => \E i \in 1..Len(result.warnings) : result.warnings[i] = TypeWarning(c)

\* C22: validate_data is read-only and its report is fresh: the frame has the
\* same columns, rows and values after the call as before, the report returned
\* is an object that no earlier call returned, and the reports of the earlier
\* calls are as their callers received them.
C22_ValidateReadOnly ==
    result.op = "validate_data" =>
        /\ campaign_data = prev_data
        /\ ~result.raised =>
              /\ result.id = Len(result.heap_before) + 1
              /\ Len(result.heap) = result.id
              /\ result.heap[result.id].info = result.info
              /\ \A i \in 1..Len(result.heap_before) : result.heap[i] = result.heap_before[i]

\* C22's case: a second report was returned for a frame with rows while the
\* caller still holds the first
C22_Witness ==
    /\ result.op = "validate_data" /\ ~result.raised
    /\ result.id = 2 /\ Len(result.heap_before) = 1
    /\ campaign_data.n > 0
    /\ campaign_data = prev_data

---------------------------------------------------------------------------
(* Upload and export, driven: the session's dataset *)

\* st.session_state.campaign_data = None
InitUpload ==
    /\ campaign_data = NoDataset
    /\ prev_data = NoDataset
    /\ email_history = <<>>
    /\ prev_history = <<>>
    /\ result = NoResult
    /\ rng = 0
    /\ chat_history = <<>>

\* render_data_upload: the session's dataset is assigned only after load_csv
\* has returned
Upload ==
    LET \* The files a user may upload: the empty one, and tables of up to MaxRows rows
        UploadFiles ==
            LET \* Rows of the uploaded files: an ordinary campaign, one of zeros with no
                \* start date, one with conversions spelled out
                UploadRows ==
                    {[spend |-> U(800), revenue |-> U(1200), conversions |-> U(10),
                      start_date |-> Txt(<<"2", "0", "2", "4", "-", "0", "1", "-", "0", "1">>),
                      end_date |-> Txt(<<"2", "0", "2", "4", "-", "0", "1", "-", "1", "1">>)],
                     [spend |-> U(0), revenue |-> U(0), conversions |-> U(0),
                      start_date |-> NaN,
                      end_date |-> Txt(<<"2", "0", "2", "4", "-", "0", "1", "-", "1", "1">>)],
                     [spend |-> U(1800), revenue |-> U(2400), conversions |-> Txt(<<"t", "e", "n">>),
                      start_date |-> Txt(<<"2", "0", "2", "4", "-", "0", "1", "-", "0", "5">>),
                      end_date |-> Txt(<<"2", "0", "2", "4", "-", "0", "2", "-", "0", "4">>)]}
            IN  {EmptyFile} \cup
                {to_csv(Frame(Len(rows),
                              [c \in {"spend", "revenue", "conversions", "start_date", "end_date"} |->
                                  Column("obj", [i \in 1..Len(rows) |-> rows[i][c]])])) :
                    rows \in SeqsUpTo(UploadRows, MaxRows)}
    IN  \E uploaded_file \in UploadFiles :
            LET out == load_csv(uploaded_file)
            IN  /\ campaign_data' = IF out.raised THEN campaign_data ELSE out.df
                /\ prev_data' = campaign_data
                /\ result' = [op |-> "load_csv", raised |-> out.raised, ret |-> out.df]
                /\ UNCHANGED <<email_history, prev_history, rng, chat_history>>

\* export_data(campaign_data, format)
ExportData ==
    /\ campaign_data.present
    /\ \E format \in {<<"c", "s", "v">>, <<"C", "S", "V">>, <<"E", "x", "c", "e", "l">>,
                     <<"p", "d", "f">>, <<"c", "s", "v", " ">>} :
          LET out == export_data(campaign_data, format)
          IN  result' = [op |-> "export_data", raised |-> out.raised, kind |-> out.kind,
                         ret |-> out.file, format |-> format]
    /\ prev_data' = campaign_data
    /\ UNCHANGED <<campaign_data, email_history, prev_history, rng, chat_history>>

\* load_csv on the CSV bytes that export_data has just returned
LoadExported ==
    /\ result.op = "export_data" /\ result.kind = "csv"
    /\ LET out == load_csv(result.ret)
       IN  result' = [op |-> "load_exported", raised |-> out.raised, ret |-> out.df]
    /\ prev_data' = campaign_data
    /\ UNCHANGED <<campaign_data, email_history, prev_history, rng, chat_history>>

NextUpload ==
    \/ Upload
    \/ ExportData
    \/ LoadExported

SpecUpload == InitUpload /\ [][NextUpload]_vars

---------------------------------------------------------------------------
(* Claims about upload and export, checked under SpecUpload *)

\* Every derived column whose source columns are in the frame is in it too
AllStagesRan(df) ==
    /\ {"revenue", "spend"} \subseteq Columns(df) => HasCol(df, "roi")
    /\ {"clicks", "impressions"} \subseteq Columns(df)
          => HasCol(df, "ctr") /\ HasCol(df, "engagement_rate")
    /\ {"start_date", "end_date"} \subseteq Columns(df) => HasCol(df, "campaign_duration")
    /\ {"spend", "conversions"} \subseteq Columns(df) => HasCol(df, "cpa")

\* C12: load_csv either raises or returns a dataset on which coercion, backfill
\* and every derived column ran to completion; a failed upload leaves the
\* session's dataset as it was and a successful one replaces it with the new
\* dataset.
C12_UploadAtomic ==
    result.op = "load_csv" =>
        IF result.raised THEN campaign_data = prev_data
        ELSE campaign_data = result.ret /\ AllStagesRan(result.ret)

\* C13: for a normalized dataset d, load_csv(export_data(d, 'csv')) has as many
\* rows as d and the same value in every column that is numeric in d, no-data
\* values included.
C13_CsvRoundTrip ==
    result.op = "load_exported" =>
        /\ ~result.raised
        /\ result.ret.n = campaign_data.n
        /\ \A c \in Columns(campaign_data) :
              campaign_data.col[c].dtype = "num"
                  => HasCol(result.ret, c) /\ Cells(result.ret, c) = Cells(campaign_data, c)

\* C14: export_data returns bytes for the format names 'csv' and 'excel' in any
\* letter case, and for every other name raises the unsupported-format error,
\* returns nothing and leaves the dataset as it was.
C14_ExportFormats ==
    result.op = "export_data" =>
        /\ campaign_data = prev_data
        /\ result.format \in {<<"c", "s", "v">>, <<"C", "S", "V">>}
              => ~result.raised /\ result.kind = "csv" /\ result.ret = to_csv(campaign_data)
        /\ result.format = <<"E", "x", "c", "e", "l">>
              => ~result.raised /\ result.kind = "excel"
        /\ result.format \in {<<"p", "d", "f">>, <<"c", "s", "v", " ">>}
              => result.raised /\ result.kind = "none" /\ result.ret = EmptyFile

\* C14's case: the name 'CSV' in capitals has produced the CSV bytes of a
\* dataset with rows
C14_Witness ==
    /\ result.op = "export_data"
    /\ result.format = <<"C", "S", "V">>
    /\ result.kind = "csv"
    /\ result.ret.n > 0

---------------------------------------------------------------------------
(* The sample generator, driven.  result.first keeps, for each size, what the
   first call with that size returned; result.after_draws tells that numbers
   were drawn from the global generator since the call before. *)
LargeRecords == 100000

InitSample ==
    /\ campaign_data = NoDataset
    /\ prev_data = NoDataset
    /\ email_history = <<>>
    /\ prev_history = <<>>
    /\ result = [op |-> "none", raised |-> FALSE, drawn |-> FALSE,
                 first |-> [n \in (1..MaxRows) \cup {LargeRecords} |-> NoResult]]
    /\ rng \in 0..(RngModulus - 1)
    /\ chat_history = <<>>

\* generate_sample_data(num_records); the frame becomes the session's dataset
GenerateSampleData ==
    \E num_records \in (1..MaxRows) \cup {LargeRecords} :
        LET out == generate_sample_data(num_records, rng)
            this == [op |-> "generate_sample_data", raised |-> out.raised, ret |-> out.df]
            seen == result.first[num_records].op # "none"
        IN  /\ result' = [op |-> "generate_sample_data", raised |-> out.raised,
                          ret |-> out.df, num_records |-> num_records,
                          repeat |-> seen, after_draws |-> result.drawn, drawn |-> FALSE,
                          first |-> IF seen THEN result.first
                                    ELSE [result.first EXCEPT ![num_records] = this]]
            /\ campaign_data' = IF out.raised THEN campaign_data ELSE out.df
            /\ prev_data' = campaign_data
            /\ rng' = out.state
            /\ UNCHANGED <<email_history, prev_history, chat_history>>

\* Some other code draws a number from numpy's global generator
OtherDraw ==
    /\ rng' = Advance(rng)
    /\ result' = [result EXCEPT !.drawn = TRUE]
    /\ UNCHANGED <<campaign_data, prev_data, email_history, prev_history, chat_history>>

NextSample ==
    \/ GenerateSampleData
    \/ OtherDraw

SpecSample == InitSample /\ [][NextSample]_vars

---------------------------------------------------------------------------
(* Claims about the sample generator, checked under SpecSample *)

\* C15: two calls of generate_sample_data with the same size return the same
\* dataset, whatever was drawn from the random generator between them: every
\* call returns what the first call with its size returned.
C15_SampleDeterministic ==
    result.op = "generate_sample_data" =>
        /\ result.ret = result.first[result.num_records].ret
        /\ result.raised = result.first[result.num_records].raised

\* C15's case: a size is generated a second time after other draws, which left
\* the generator in another state than the seeded one, and a dataset is returned
C15_Witness ==
    /\ result.op = "generate_sample_data"
    /\ result.repeat /\ result.after_draws
    /\ ~result.raised /\ result.ret.n = result.num_records
    /\ result.ret = result.first[result.num_records].ret

\* C16: for every size of one or more, generate_sample_data returns that many
\* records with pairwise distinct campaign_id, a channel of the fixed list, no
\* missing budget, spend, revenue, impressions, clicks, conversions or roi, and
\* an end_date after the start_date in every record.
C16_SampleWellFormed ==
    result.op = "generate_sample_data" =>
        /\ ~result.raised
        /\ result.ret.n = result.num_records
        /\ \A i, j \in 1..result.ret.n :
              i # j => Cells(result.ret, "campaign_id")[i] # Cells(result.ret, "campaign_id")[j]
        /\ \A i \in 1..result.ret.n :
              /\ \E k \in 1..Len(SampleChannels) :
                    Cells(result.ret, "channel")[i] = Txt(SampleChannels[k])
              /\ \A c \in {"budget", "spend", "revenue", "impressions", "clicks",
                           "conversions", "roi"} :
                    HasCol(result.ret, c) /\ IsNum(Cells(result.ret, c)[i])
              /\ Cells(result.ret, "end_date")[i].k = "date"
              /\ Cells(result.ret, "start_date")[i].k = "date"
              /\ Cells(result.ret, "end_date")[i].v > Cells(result.ret, "start_date")[i].v

---------------------------------------------------------------------------
(* MarketingAnalyzer.perform_clustering, as the segmentation contract and    *)
(* its caller and test describe it                                           *)

\* What the caller tests with 'if clusters is not None'
None == [none |-> TRUE]

\* perform_clustering that leaves the row count unchecked
perform_clustering_any_rows(data, n_clusters, assignment) ==
    IF Cardinality({c \in Columns(data) :
                       /\ data.col[c].dtype = "num"
                       /\ \A i \in 1..data.n : ~IsNa(Cells(data, c)[i])}) < 2
        THEN [raised |-> FALSE, clusters |-> None]
        ELSE [raised |-> FALSE, clusters |-> [none |-> FALSE, labels |-> assignment]]

\* The features are the columns of numeric dtype without a null; with fewer
\* than two of them, or fewer rows than clusters, the caller gets None
\* ('if clusters is not None'), otherwise the labels the centroid iteration
\* assigns, one per row in row order
perform_clustering(data, n_clusters, assignment) ==
    LET features == {c \in Columns(data) :
                        /\ data.col[c].dtype = "num"
                        /\ \A i \in 1..data.n : ~IsNa(Cells(data, c)[i])}
    IN  IF Cardinality(features) < 2 \/ data.n < n_clusters
            THEN [raised |-> FALSE, clusters |-> None]
            ELSE [raised |-> FALSE, clusters |-> [none |-> FALSE, labels |-> assignment]]

\* Frames of up to MaxRows rows of the test's columns, the roi column with or
\* without a null in its first row
InitSegment ==
    /\ campaign_data \in
           {Frame(n, [c \in cols |->
                         IF c = "channel" THEN Column("obj", [i \in 1..n |-> Str(i)])
                         ELSE IF c = "roi" /\ hole
                             THEN Column("num", [i \in 1..n |->
                                                    IF i = 1 THEN NaN ELSE U(10 * i)])
                         ELSE Column("num", [i \in 1..n |-> U(100 * i)])]) :
               cols \in SUBSET {"budget", "spend", "roi", "channel"},
               n \in 0..MaxRows,
               hole \in BOOLEAN}
    /\ prev_data = campaign_data
    /\ email_history = <<>>
    /\ prev_history = <<>>
    /\ result = NoResult
    /\ rng = 0
    /\ chat_history = <<>>

\* clusters = self.analyzer.perform_clustering(data, n_clusters): which label
\* the iteration gives a row is left open, any label of 0..n_clusters-1
PerformClustering ==
    /\ result = NoResult
    /\ \E n_clusters \in 2..MaxClusters :
          \E assignment \in [1..campaign_data.n -> 0..(n_clusters - 1)] :
              result' = [op |-> "perform_clustering", n_clusters |-> n_clusters]
                            @@ perform_clustering(campaign_data, n_clusters, assignment)
    /\ prev_data' = campaign_data
    /\ UNCHANGED <<campaign_data, email_history, prev_history, rng, chat_history>>

SpecSegment == InitSegment /\ [][PerformClustering]_vars

---------------------------------------------------------------------------
(* Claims about the segmentation, checked under SpecSegment *)

\* C28: perform_clustering(dataset, K) does not raise; it returns the
\* 'unavailable' value when the dataset has fewer than two usable numeric
\* columns or fewer rows than K, and otherwise an array of one label per row,
\* in row order, each label in 0..K-1.
C28_LabelsOrUnavailable ==
    result.op = "perform_clustering" =>
        LET usable == {c \in Columns(campaign_data) :
                          /\ campaign_data.col[c].dtype = "num"
                          /\ \A i \in 1..campaign_data.n : IsNum(Cells(campaign_data, c)[i])}
        IN  /\ ~result.raised
            /\ IF Cardinality(usable) < 2 \/ campaign_data.n < result.n_clusters
                   THEN result.clusters = None
                   ELSE /\ result.clusters # None
                        /\ DOMAIN result.clusters.labels = 1..campaign_data.n
                        /\ \A i \in 1..campaign_data.n :
                              result.clusters.labels[i] \in 0..(result.n_clusters - 1)

\* C28's case: two rows of two whole numeric columns got two different labels
C28_Witness ==
    /\ result.op = "perform_clustering" /\ result.n_clusters = 2
    /\ result.clusters # None
    /\ campaign_data.n = 2
    /\ result.clusters.labels[1] # result.clusters.labels[2]

---------------------------------------------------------------------------
(* The chat of render_ai_chat: submissions and quick actions *)

\* generate_campaign_suggestions(data): the suggestions it collects
generate_campaign_suggestions(data) ==
    IF ~data.present THEN Report([template |-> "suggestions_upload"])
    ELSE LET roi == Cells(data, "roi")
             \* 4 * data['roi'].quantile(0.75), interpolated between the order statistics
             Kth(k) == roi[CHOOSE i \in 1..data.n :
                               /\ Cardinality({j \in 1..data.n : roi[j].v < roi[i].v}) <= k
                               /\ k < Cardinality({j \in 1..data.n : roi[j].v <= roi[i].v})].v
             pos == 3 * (data.n - 1)
             q4 == IF pos % 4 = 0 THEN 4 * Kth(pos \div 4)
                   ELSE (4 - (pos % 4)) * Kth(pos \div 4) + (pos % 4) * Kth((pos \div 4) + 1)
             high_roi_campaigns == {i \in 1..data.n : 4 * roi[i].v > q4}
             budget == IF {"budget", "roi"} \subseteq Columns(data) /\ data.n > 0
                              /\ high_roi_campaigns # {}
                           \* f"${avg_budget:,.0f}": whole dollars
                           THEN <<[avg_budget |->
                                      RoundDiv(SeqSum([i \in 1..data.n |->
                                              IF i \in high_roi_campaigns
                                                  THEN Cells(data, "budget")[i].v ELSE 0]),
                                          Cardinality(high_roi_campaigns) * Scale)]>>
                       ELSE <<>>
             keys == GroupKeys(data)
             \* data.groupby('channel')['roi'].mean().idxmax(): the first of the maxima
             idxmax == keys[CHOOSE i \in 1..Len(keys) :
                              /\ \A j \in 1..Len(keys) :
                                    ColMean(GroupCells(data, "roi", keys[j])).v
                                        <= ColMean(GroupCells(data, "roi", keys[i])).v
                              /\ \A j \in 1..(i - 1) :
                                    ColMean(GroupCells(data, "roi", keys[j])).v
                                        < ColMean(GroupCells(data, "roi", keys[i])).v]
         IN  IF {"channel", "roi"} \subseteq Columns(data) /\ keys = <<>>
                 THEN Raised("ValueError")
             ELSE Report([template |-> "suggestions",
                          budget |-> budget,
                          channel |-> IF {"channel", "roi"} \subseteq Columns(data)
                                          THEN <<idxmax>> ELSE <<>>,
                          timing |-> {"date", "start_date", "campaign_date"}
                                         \cap Columns(data) # {}])

\* No dataset, the two rows of tests/test_utils.py with a budget, or one row
\* whose channel is missing; the chat starts empty
InitChat ==
    /\ campaign_data \in
           {NoDataset,
            Frame(2, [c \in {"roi", "budget", "channel"} |->
                         CASE c = "roi" -> Column("num", <<Num(255000), Num(152000)>>)
                           [] c = "budget" -> Column("num", <<U(1000), U(1500)>>)
                           [] OTHER -> Column("obj", <<Str(1), Str(2)>>)]),
            Frame(1, [c \in {"roi", "channel"} |->
                         IF c = "roi" THEN Column("num", <<Num(255000)>>)
                         ELSE Column("num", <<NaN>>)])}
    /\ prev_data = campaign_data
    /\ email_history = <<>>
    /\ prev_history = <<>>
    /\ result = NoResult
    /\ rng = 0
    /\ chat_history = <<>>

\* if user_input: the user's entry is appended, then the response is computed
\* and appended; an exception of get_ai_response ends the run in between
SubmitChat ==
    /\ Len(chat_history) + 2 <= MaxChat
    /\ \E user_input \in {<<"R", "O", "I">>, <<"h", "i", " ">>} :
          LET asked == Append(chat_history, [role |-> "user", content |-> user_input])
              ran == get_ai_response(user_input, campaign_data)
          IN  /\ chat_history' =
                     IF ran.out.raised THEN asked
                     ELSE Append(asked, [role |-> "assistant", content |-> ran.out.report])
              /\ result' = [op |-> "submit", raised |-> ran.out.raised, exc |-> ran.out.exc,
                            user_input |-> user_input, chat_before |-> chat_history]
              /\ campaign_data' = ran.data
    /\ prev_data' = campaign_data
    /\ UNCHANGED <<email_history, prev_history, rng>>

\* The three buttons: each appends what the optimizer's method returned.
\* CampaignOptimizer defines no analyze_campaign_performance; get_optimization_tips
\* returns a fixed text.
QuickAction ==
    /\ Len(chat_history) + 1 <= MaxChat
    /\ \E button \in {"suggestions", "performance", "tips"} :
          LET out == CASE button = "suggestions" -> generate_campaign_suggestions(campaign_data)
                       [] button = "performance" -> Raised("AttributeError")
                       [] OTHER -> Report([template |-> "optimization_tips"])
          IN  /\ chat_history' =
                     IF out.raised THEN chat_history
                     ELSE Append(chat_history, [role |-> "assistant", content |-> out.report])
              /\ result' = [op |-> "quick_action", raised |-> out.raised, exc |-> out.exc,
                            button |-> button, chat_before |-> chat_history]
    /\ prev_data' = campaign_data
    /\ UNCHANGED <<campaign_data, email_history, prev_history, rng>>

NextChat == SubmitChat \/ QuickAction

SpecChat == InitChat /\ [][NextChat]_vars

---------------------------------------------------------------------------
(* Claims about the chat, checked under SpecChat *)

\* C30: the chat history is append-only and paired: every user entry is
\* immediately followed by the assistant's entry; a submission appends exactly
\* these two entries and a quick action exactly one assistant entry.
C30_ChatPaired ==
    /\ \A i \in 1..Len(chat_history) :
          chat_history[i].role = "user" =>
              i < Len(chat_history) /\ chat_history[i + 1].role = "assistant"
    /\ result.op \in {"submit", "quick_action"} =>
          /\ Len(chat_history) >= Len(result.chat_before)
          /\ SubSeq(chat_history, 1, Len(result.chat_before)) = result.chat_before
    /\ result.op = "submit" =>
          /\ Len(chat_history) = Len(result.chat_before) + 2
          /\ chat_history[Len(chat_history) - 1]
                 = [role |-> "user", content |-> result.user_input]
          /\ chat_history[Len(chat_history)].role = "assistant"
    /\ result.op = "quick_action" =>
          /\ Len(chat_history) = Len(result.chat_before) + 1
          /\ chat_history[Len(chat_history)].role = "assistant"

---------------------------------------------------------------------------
(* Claims about the ledger, checked under SpecLedger *)

\* C27: validate_email_list partitions its input: after stripping, every
\* non-blank entry is in exactly one of the two lists, in the valid one exactly
\* when it matches the address pattern; blank entries are in neither; both lists
\* keep the order of the input; their lengths add up to the number of non-blank
\* entries.
C27_ListsPartitionInput ==
    result.op = "validate_email_list" =>
        LET stripped == [i \in 1..Len(result.email_list) |-> Strip(result.email_list[i])]
            kept == SelectSeq(stripped, LAMBDA e : e # <<>>)
        IN  /\ result.ret.valid = SelectSeq(kept, LAMBDA e : validate_email(e))
            /\ result.ret.invalid = SelectSeq(kept, LAMBDA e : ~validate_email(e))
            /\ Len(result.ret.valid) + Len(result.ret.invalid) = Len(kept)
            /\ \A i \in 1..Len(result.ret.valid) : result.ret.valid[i] # <<>>
            /\ \A i \in 1..Len(result.ret.invalid) : result.ret.invalid[i] # <<>>

\* C27's case: a list of a blank and a padded valid entry gave one valid address
C27_Witness ==
    /\ result.op = "validate_email_list"
    /\ result.email_list = <<(<<" ">>), AddrPadded>>
    /\ result.ret = [valid |-> <<Strip(AddrPadded)>>, invalid |-> <<>>]

ValidOf(recipients) == validate_email_list(recipients).valid

\* C7: send_campaign with at least one syntactically valid recipient returns
\* True and appends exactly one entry, which carries the given campaign name
\* and subject, status 'Sent', and the number of valid addresses.
C7_SendAppendsOneEntry ==
    (result.op = "send_campaign" /\ ValidOf(result.recipients) # <<>>) =>
        /\ result.ret = TRUE
        /\ Len(email_history) = Len(prev_history) + 1
        /\ SubSeq(email_history, 1, Len(prev_history)) = prev_history
        /\ email_history[Len(email_history)].campaign_name = result.campaign_name
        /\ email_history[Len(email_history)].subject = result.subject
        /\ email_history[Len(email_history)].status = StatusSent
        /\ email_history[Len(email_history)].recipients_count
               = Len(ValidOf(result.recipients))

\* C8: the ledger is append-only: no operation shortens it or changes an entry
\* it already holds, and get_campaign_history returns every entry in insertion
\* order, with an explicit empty result when there is none.
C8_LedgerAppendOnly ==
    /\ Len(email_history) >= Len(prev_history)
    /\ SubSeq(email_history, 1, Len(prev_history)) = prev_history
    /\ result.op = "get_campaign_history" =>
          /\ result.ret.rows = email_history
          /\ result.ret.empty <=> (email_history = <<>>)

\* C8's case: a history of two different entries has been read back
C8_Witness ==
    /\ result.op = "get_campaign_history"
    /\ Len(email_history) = 2
    /\ email_history[1].campaign_name # email_history[2].campaign_name
    /\ ~result.ret.empty

\* C9: create_campaign_report never raises; on an empty ledger every total is
\* zero and recent_campaigns is empty; on n >= 1 entries it reports n, the sum
\* of recipients_count, the means of the parsed rates and the last min(n, 5)
\* entries in insertion order.
C9_ReportForEveryLedger ==
    result.op = "create_campaign_report" =>
        LET n == Len(email_history)
            r == result.ret
        IN  /\ ~result.raised
            /\ n = 0 =>
                  /\ r.total_campaigns = 0
                  /\ r.total_recipients = 0
                  /\ r.avg_open_rate.sum = 0
                  /\ r.avg_click_rate.sum = 0
                  /\ r.recent_campaigns = <<>>
            /\ n >= 1 =>
                  /\ r.total_campaigns = n
                  /\ r.total_recipients
                        = SeqSum([i \in 1..n |-> email_history[i].recipients_count])
                  /\ r.avg_open_rate.sum * n = r.avg_open_rate.n
                        * SeqSum([i \in 1..n |-> ParseRate(email_history[i].open_rate)])
                  /\ r.avg_click_rate.sum * n = r.avg_click_rate.n
                        * SeqSum([i \in 1..n |-> ParseRate(email_history[i].click_rate)])
                  /\ Len(r.recent_campaigns) = (IF n < RecentCount THEN n ELSE RecentCount)
                  /\ \A i \in 1..Len(r.recent_campaigns) :
                        r.recent_campaigns[i]
                            = email_history[n - Len(r.recent_campaigns) + i]

\* C29: send_campaign never raises and changes the ledger by at most one
\* entry: the ledger grows, by exactly one entry at its end, exactly when True
\* is returned; with no valid recipient, or when a step fails, False is
\* returned and the ledger is as it was.
C29_SendAllOrNothing ==
    result.op = "send_campaign" =>
        /\ ~result.raised
        /\ result.ret \in BOOLEAN
        /\ result.ret = TRUE <=>
              /\ Len(email_history) = Len(prev_history) + 1
              /\ SubSeq(email_history, 1, Len(prev_history)) = prev_history
        /\ result.ret = FALSE => email_history = prev_history
        /\ ValidOf(result.recipients) = <<>> => result.ret = FALSE
        /\ ~NumpyBound => result.ret = FALSE

\* C29's case: a send to a valid recipient failed at the save, on a ledger of
\* one entry, which is still the whole ledger
C29_Witness ==
    /\ result.op = "send_campaign"
    /\ ValidOf(result.recipients) # <<>>
    /\ result.ret = FALSE
    /\ Len(prev_history) = 1 /\ email_history = prev_history

====
